---- MODULE Spec2Model ----
(***************************************************************************)
(* Verification model of the CAN telemetry edge agent                      *)
(* (src/edge-agent/src): the time-window batcher, the S3 uploader with     *)
(* retry and its remote key, the offline buffer, the hardware reader and   *)
(* the supervisor loop with its retry worker.                              *)
(*                                                                         *)
(* Time is counted in ticks, TicksPerSec ticks to the second, so that      *)
(* several frames (and several batches) can fall into one UTC second.      *)
(* A directory is a function from file name to file; a file is the record  *)
(* [frames, mtime, size] (a written batch also has rows, the stored        *)
(* table).  A batch file's name is the UTC second of its                   *)
(* batch start time, which is what strftime('%Y%m%dT%H%M%S') keeps of it.  *)
(***************************************************************************)
EXTENDS Integers, Sequences, FiniteSets, TLC

VARIABLES
    \* configuration (set once in Init)
    window_sec, max_frames, max_retries, initial_backoff_sec, max_backoff_sec,
    max_queue_size, max_disk_bytes, upload_enabled,
    \* CANFrameBatcher
    current_batch, batch_start_time,
    \* the three directories
    data_dir, pending_dir, archive_dir,
    \* environment: wall clock, number of frames yielded so far, parity of the
    \* receive calls that timed out, the remote store's objects (key -> content)
    clock, fed, polls, s3_objects,
    \* observation of the last call: operation, argument, return value
    op, arg, ret,
    \* S3Uploader._upload_with_retry: attempts made and sleeps performed by the last call
    attempts, sleeps,
    \* OfflineBuffer: the last call's log records, "Evicted old file" (warning)
    \* and "Failed to evict file" (error)
    evict_log, evict_errors,
    \* run_agent
    pc, cur_path, shutdown_event, running, batch_count, upload_success,
    upload_failed, exit_code,
    \* retry_pending_worker
    worker_pc, worker_files,
    \* RealCANReader: position of the read_frames generator, _reconnect_delay,
    \* _stats, whether stop() has been called, and the number of reconnect
    \* attempts that have failed in a row in the current reconnect loop
    reader_pc, reconnect_delay, stats, stopped, reconnects,
    \* run_agent's exit: an exception has reached the except arm of the main
    \* loop; process_frames is suspended in its finally clause with an exception
    \* pending; the names get_stats has globbed
    fatal, raising, stats_files,
    \* _upload_with_retry step by step: position, the local backoff, the
    \* seconds left of the current time.sleep
    up_pc, up_backoff, sleep_left,
    \* the remote store's multipart uploads that are initiated and neither
    \* completed nor aborted (upload ids)
    s3_multipart,
    \* enforce_limits step by step: its position
    el_pc,
    \* run_agent's background threads: the names of the threads started, the
    \* health monitor's position, the parity of the heartbeats it has logged;
    \* run_agent's argument simulate
    threads, health_pc, beats, simulate

cfgVars == <<window_sec, max_frames, max_retries, initial_backoff_sec,
             max_backoff_sec, max_queue_size, max_disk_bytes, upload_enabled>>
batcherVars == <<current_batch, batch_start_time>>
dirVars == <<data_dir, pending_dir, archive_dir>>
envVars == <<clock, fed, polls, s3_objects>>
callVars == <<op, arg, ret>>
uploaderVars == <<attempts, sleeps>>
bufferVars == <<evict_log, evict_errors>>
agentVars == <<pc, cur_path, shutdown_event, running, batch_count,
               upload_success, upload_failed, exit_code>>
workerVars == <<worker_pc, worker_files>>
readerVars == <<reader_pc, reconnect_delay, stats, stopped, reconnects>>
exitVars == <<fatal, raising, stats_files>>
retryVars == <<up_pc, up_backoff, sleep_left>>
monitorVars == <<threads, health_pc, beats, simulate>>
stepVars == <<exitVars, retryVars, s3_multipart, el_pc, monitorVars>>
vars == <<cfgVars, batcherVars, dirVars, envVars, callVars, uploaderVars,
          bufferVars, agentVars, workerVars, readerVars, stepVars>>

----------------------------------------------------------------------------
(* Bounds *)

TicksPerSec == 2
MaxTs == 4
MaxFed == 4
MaxWindowSec == 2
MaxMaxFrames == 3
MaxFiles == 2
MaxMtime == 2
MaxQueueSize == 1
MaxDiskBytes == 2
MaxRetries == 3
MaxInitialBackoff == 3
MaxMaxBackoff == 4
AgentMaxFed == 3
AgentMaxClock == 2
BulkFiles == 20
MaxParts == 3
MaxPartLen == 2
MaxBusErrors == 1
MaxReconnects == 6
ReaderMaxFed == 2

\* Python's None, for a path or a timestamp
None == -1

\* the batcher's vehicle_id, and the nanoseconds of one tick
VehicleId == "VEH1"
NsPerTick == 1000000000 \div TicksPerSec

\* RealCANReader._reconnect_delay and _max_reconnect_delay, in seconds
ReconnectDelayInit == 1
MaxReconnectDelay == 30

----------------------------------------------------------------------------
(* Directories *)

EmptyDir == [n \in {} |-> 0]

\* write or replace the entry n (open-for-write, rename onto, move onto)
Put(dir, n, f) == [x \in (DOMAIN dir) \cup {n} |-> IF x = n THEN f ELSE dir[x]]

\* unlink, or the source side of a rename
Remove(dir, n) == [x \in (DOMAIN dir) \ {n} |-> dir[x]]

----------------------------------------------------------------------------
(* CANFrameBatcher *)

CANFrame(id, t) == [id |-> id, timestamp |-> t]

\* int(f.timestamp * 1e9): the timestamp in nanoseconds, written as whole
\* seconds and the nanoseconds within the second
Nanoseconds(t) == [sec |-> t \div TicksPerSec, ns |-> (t % TicksPerSec) * NsPerTick]

\* _frames_to_table: one row per frame, in list order; the timestamp becomes
\* integer nanoseconds, the payload columns (arb_id, dlc, data, here the frame's
\* identity) are copied and every row carries the batcher's vehicle_id
FramesToTable(frames) ==
    [i \in 1..Len(frames) |->
        [timestamp |-> Nanoseconds(frames[i].timestamp), payload |-> frames[i].id,
         vehicle_id |-> VehicleId]]

\* strftime('%Y%m%dT%H%M%S') of the batch start: the UTC second, fraction dropped.
\* The partition directory (year/month/day) is a function of the same second.
GetOutputPath(timestamp) == timestamp \div TicksPerSec

\* pq.write_table(table, output_path): creates the file or replaces the one there.
\* rows is the stored table; frames keeps the list _write_batch was handed.
WriteBatch(dir, frames, start_time, now) ==
    Put(dir, GetOutputPath(start_time),
        [frames |-> frames, rows |-> FramesToTable(frames), mtime |-> now,
         size |-> Len(frames)])

\* mutant of ShouldFlush: the window compared with > instead of >=
ShouldFlushAfterWindow(batch, start, current_time) ==
    IF batch = <<>> THEN FALSE
    ELSE IF start = None THEN FALSE
    ELSE IF current_time - start > window_sec * TicksPerSec THEN TRUE
    ELSE IF Len(batch) >= max_frames THEN TRUE
    ELSE FALSE

\* mutant of ShouldFlush: the frame limit compared with > instead of >=
ShouldFlushLate(batch, start, current_time) ==
    IF batch = <<>> THEN FALSE
    ELSE IF start = None THEN FALSE
    ELSE IF current_time - start >= window_sec * TicksPerSec THEN TRUE
    ELSE IF Len(batch) > max_frames THEN TRUE
    ELSE FALSE

ShouldFlush(batch, start, current_time) ==
    IF batch = <<>> THEN FALSE
    ELSE IF start = None THEN FALSE
    ELSE IF current_time - start >= window_sec * TicksPerSec THEN TRUE
    ELSE IF Len(batch) >= max_frames THEN TRUE
    ELSE FALSE

\* mutant of FlushResult: the empty batch is written like any other
FlushResultWritesEmpty(batch, start, dir, now) ==
    LET s == IF start # None THEN start
             ELSE IF batch = <<>> THEN now ELSE batch[1].timestamp
    IN [batch |-> <<>>, start |-> None,
        dir |-> WriteBatch(dir, batch, s, now),
        path |-> GetOutputPath(s)]

\* flush(): the state after it and the path it returns, from a batch and its start
FlushResult(batch, start, dir, now) ==
    IF batch = <<>>
    THEN [batch |-> batch, start |-> start, dir |-> dir, path |-> None]
    ELSE LET s == IF start = None THEN batch[1].timestamp ELSE start
         IN [batch |-> <<>>, start |-> None,
             dir |-> WriteBatch(dir, batch, s, now),
             path |-> GetOutputPath(s)]

\* add_frame(frame): the state after it and the path it returns
AddFrameResult(batch, start, dir, frame, now) ==
    LET s == IF batch = <<>> THEN frame.timestamp ELSE start
        b == Append(batch, frame)
    IN IF ShouldFlush(b, s, frame.timestamp)
       THEN FlushResult(b, s, dir, now)
       ELSE [batch |-> b, start |-> s, dir |-> dir, path |-> None]

\* mutant of ProcessFramesEnd: the final flush runs only when the stream ends
\* normally (an else clause where the code has finally)
ProcessFramesEndNoFinally(batch, start, dir, now, raised) ==
    IF raised THEN [batch |-> batch, start |-> start, dir |-> dir, path |-> None]
    ELSE FlushResult(batch, start, dir, now)

\* process_frames when its frame iterator is exhausted or raises: the except
\* clause logs and re-raises, the finally clause flushes either way
ProcessFramesEnd(batch, start, dir, now, raised) ==
    FlushResult(batch, start, dir, now)

----------------------------------------------------------------------------
(* OfflineBuffer *)

Min(a, b) == IF a <= b THEN a ELSE b
Max(a, b) == IF a >= b THEN a ELSE b

\* the orders in which a directory listing can enumerate the names in S
Perms(S) ==
    {s \in [1..Cardinality(S) -> S] : \A i, j \in 1..Cardinality(S) : s[i] = s[j] => i = j}

\* pending_dir.glob("*.parquet"): the names of dir, in the listing order
Glob(dir, order) == SelectSeq(order, LAMBDA n : n \in DOMAIN dir)

RECURSIVE InsertByMtime(_, _, _)
InsertByMtime(sorted, n, dir) ==
    IF sorted = <<>> THEN <<n>>
    ELSE IF dir[Head(sorted)].mtime <= dir[n].mtime
         THEN <<Head(sorted)>> \o InsertByMtime(Tail(sorted), n, dir)
         ELSE <<n>> \o sorted

\* list.sort(key=st_mtime): stable, ascending
RECURSIVE SortByMtime(_, _)
SortByMtime(files, dir) ==
    IF files = <<>> THEN <<>>
    ELSE InsertByMtime(SortByMtime(SubSeq(files, 1, Len(files) - 1), dir),
                       files[Len(files)], dir)

\* mutant of GetPendingFiles: the listing is returned without the sort
GetPendingFilesUnsorted(dir, order) == Glob(dir, order)

GetPendingFiles(dir, order) == SortByMtime(Glob(dir, order), dir)

RECURSIVE SumSizes(_, _)
SumSizes(dir, S) ==
    IF S = {} THEN 0
    ELSE LET n == CHOOSE x \in S : TRUE IN dir[n].size + SumSizes(dir, S \ {n})

GetDiskUsage(dir) == SumSizes(dir, DOMAIN dir)

\* mutant of CheckDiskSpace: the limit compared one byte too high
CheckDiskSpaceOffByOne(dir) == ~(GetDiskUsage(dir) > max_disk_bytes + 1)

\* mutant of CheckDiskSpace: usage equal to the limit counts as over it
CheckDiskSpaceStrict(dir) == ~(GetDiskUsage(dir) >= max_disk_bytes)

CheckDiskSpace(dir) == ~(GetDiskUsage(dir) > max_disk_bytes)

\* get_stats(): the counts and the names at the ends of the sorted listing
GetStats(dir, order) ==
    LET pending_files == GetPendingFiles(dir, order)
    IN [pending_count |-> Len(pending_files),
        disk_usage_bytes |-> GetDiskUsage(dir),
        disk_limit |-> max_disk_bytes,
        queue_limit |-> max_queue_size,
        oldest_file |-> IF pending_files # <<>> THEN pending_files[1] ELSE None,
        newest_file |-> IF pending_files # <<>>
                        THEN pending_files[Len(pending_files)] ELSE None]

LogEntry(dir, n) == [name |-> n, mtime |-> dir[n].mtime, size |-> dir[n].size]

\* the loop of evict_oldest over pending_files[:count]; unlink raises for the
\* names in failing, which is caught and logged
RECURSIVE EvictLoop(_, _, _, _)
EvictLoop(files, failing, dir, acc) ==
    IF files = <<>> THEN acc
    ELSE LET n == Head(files)
         IN IF n \in failing
            THEN EvictLoop(Tail(files), failing, dir,
                           [acc EXCEPT !.errors = Append(@, n)])
            ELSE EvictLoop(Tail(files), failing, dir,
                           [acc EXCEPT !.dir = Remove(@, n),
                                       !.log = Append(@, LogEntry(dir, n)),
                                       !.evicted = @ + 1])

\* evict_oldest(count), count >= 0
EvictOldest(dir, count, order, failing) ==
    LET pending_files == GetPendingFiles(dir, order)
        none == [dir |-> dir, log |-> <<>>, errors |-> <<>>, evicted |-> 0]
    IN IF pending_files = <<>> THEN none
       ELSE EvictLoop(SubSeq(pending_files, 1, Min(count, Len(pending_files))),
                      failing, dir, none)

EvictDivisor == 10

\* the disk-space loop of enforce_limits
RECURSIVE DiskLoop(_, _, _)
DiskLoop(acc, order, failing) ==
    IF CheckDiskSpace(acc.dir) THEN acc
    ELSE LET pending_files == GetPendingFiles(acc.dir, order)
         IN IF pending_files = <<>> THEN acc
            ELSE LET evict_count == Max(1, Len(pending_files) \div EvictDivisor)
                     r == EvictOldest(acc.dir, evict_count, order, failing)
                     next == [dir |-> r.dir, log |-> acc.log \o r.log,
                              errors |-> acc.errors \o r.errors,
                              evicted |-> acc.evicted + r.evicted]
                 IN IF r.evicted = 0 THEN next
                    ELSE DiskLoop(next, order, failing)

\* mutant of EnforceLimits: the queue is cut one file below max_queue_size
EnforceLimitsOneTooMany(dir, order, failing) ==
    LET pending_files == GetPendingFiles(dir, order)
        q == IF Len(pending_files) > max_queue_size
             THEN EvictOldest(dir, Len(pending_files) - max_queue_size + 1, order, failing)
             ELSE [dir |-> dir, log |-> <<>>, errors |-> <<>>, evicted |-> 0]
    IN DiskLoop(q, order, failing)

\* enforce_limits()
EnforceLimits(dir, order, failing) ==
    LET pending_files == GetPendingFiles(dir, order)
        q == IF Len(pending_files) > max_queue_size
             THEN EvictOldest(dir, Len(pending_files) - max_queue_size, order, failing)
             ELSE [dir |-> dir, log |-> <<>>, errors |-> <<>>, evicted |-> 0]
    IN DiskLoop(q, order, failing)

----------------------------------------------------------------------------
(* S3Uploader *)

\* what one upload attempt can end in: the upload is stored ("ok"),
\* EndpointConnectionError ("conn"), ClientError ("client"; "denied" when its
\* error code is AccessDenied or NoSuchBucket, which the handler only logs), or any other
\* exception ("other")
Outcomes == {"ok", "conn", "client", "denied", "other"}

\* mutant of RetryLoop: the backoff doubles without the cap
RECURSIVE RetryLoopNoCap(_, _, _, _)
RetryLoopNoCap(attempt, backoff, outs, acc) ==
    IF attempt >= max_retries THEN [acc EXCEPT !.result = FALSE]
    ELSE LET made == [acc EXCEPT !.attempts = @ + 1]
         IN IF outs[attempt + 1] = "ok" THEN [made EXCEPT !.result = TRUE]
            ELSE IF outs[attempt + 1] \in {"conn", "client", "denied"}
                 THEN IF attempt < max_retries - 1
                      THEN RetryLoopNoCap(attempt + 1, backoff * 2, outs,
                                          [made EXCEPT !.sleeps = Append(@, backoff)])
                      ELSE [made EXCEPT !.result = FALSE]
                 ELSE [made EXCEPT !.result = FALSE]

\* the for loop of _upload_with_retry from iteration attempt on; outs[i] is
\* what the i-th attempt ends in
RECURSIVE RetryLoop(_, _, _, _)
RetryLoop(attempt, backoff, outs, acc) ==
    IF attempt >= max_retries THEN [acc EXCEPT !.result = FALSE]
    ELSE LET made == [acc EXCEPT !.attempts = @ + 1]
         IN IF outs[attempt + 1] = "ok" THEN [made EXCEPT !.result = TRUE]
            ELSE IF outs[attempt + 1] \in {"conn", "client", "denied"}
                 THEN IF attempt < max_retries - 1
                      THEN RetryLoop(attempt + 1, Min(backoff * 2, max_backoff_sec), outs,
                                     [made EXCEPT !.sleeps = Append(@, backoff)])
                      ELSE [made EXCEPT !.result = FALSE]
                 ELSE [made EXCEPT !.result = FALSE]

\* _upload_with_retry: the result, the attempts made and the sleeps performed
UploadWithRetry(outs) ==
    RetryLoop(0, initial_backoff_sec, outs,
              [result |-> FALSE, attempts |-> 0, sleeps |-> <<>>])

\* A path is the sequence of its components (Path.parts), a component and a key
\* are sequences of characters.  "=" in part
HasEquals(part) == \E i \in 1..Len(part) : part[i] = "="

\* "/".join(key_parts)
RECURSIVE Join(_)
Join(key_parts) ==
    IF key_parts = <<>> THEN <<>>
    ELSE IF Len(key_parts) = 1 THEN key_parts[1]
    ELSE key_parts[1] \o <<"/">> \o Join(Tail(key_parts))

\* _get_s3_key(local_path): every component with "=" in it, the last one
\* (local_path.name) included, then the name
GetS3KeyParts(prefix, parts) ==
    <<prefix>> \o SelectSeq(parts, HasEquals) \o <<parts[Len(parts)]>>

GetS3Key(prefix, parts) == Join(GetS3KeyParts(prefix, parts))

\* _get_s3_key(local_path) for a batch file: the key keeps the partition segments;
\* retry_pending's key is prefix/filename
S3Key(n) == [partitioned |-> TRUE, name |-> n]
S3KeyFlat(n) == [partitioned |-> FALSE, name |-> n]

\* mutant of Upload: no exists() test, a missing file is attempted like any other
UploadNoExistsCheck(n, outs, data, pending, archive, s3) ==
    LET r == UploadWithRetry(outs)
    IN IF n \notin DOMAIN data
       THEN [data |-> data, pending |-> pending, archive |-> archive, s3 |-> s3,
             success |-> r.result, attempts |-> r.attempts, sleeps |-> r.sleeps]
       ELSE IF r.result
            THEN [data |-> Remove(data, n), pending |-> pending,
                  archive |-> Put(archive, n, data[n]),
                  s3 |-> Put(s3, S3Key(n), data[n].frames),
                  success |-> TRUE, attempts |-> r.attempts, sleeps |-> r.sleeps]
            ELSE IF n \notin DOMAIN pending
                 THEN [data |-> Remove(data, n), pending |-> Put(pending, n, data[n]),
                       archive |-> archive, s3 |-> s3,
                       success |-> FALSE, attempts |-> r.attempts, sleeps |-> r.sleeps]
                 ELSE [data |-> data, pending |-> pending, archive |-> archive, s3 |-> s3,
                       success |-> FALSE, attempts |-> r.attempts, sleeps |-> r.sleeps]

\* mutant of Upload: the file is moved to the archive whatever the attempts
\* ended in
UploadArchivesAlways(n, outs, data, pending, archive, s3) ==
    IF n \notin DOMAIN data
    THEN [data |-> data, pending |-> pending, archive |-> archive, s3 |-> s3,
          success |-> FALSE, attempts |-> 0, sleeps |-> <<>>]
    ELSE LET r == UploadWithRetry(outs)
         IN [data |-> Remove(data, n), pending |-> pending,
             archive |-> Put(archive, n, data[n]),
             s3 |-> IF r.result THEN Put(s3, S3Key(n), data[n].frames) ELSE s3,
             success |-> r.result, attempts |-> r.attempts, sleeps |-> r.sleeps]

\* upload(local_path), local_path the file named n of the data directory: the
\* directories, the remote store and the return value after it
Upload(n, outs, data, pending, archive, s3) ==
    IF n \notin DOMAIN data
    THEN [data |-> data, pending |-> pending, archive |-> archive, s3 |-> s3,
          success |-> FALSE, attempts |-> 0, sleeps |-> <<>>]
    ELSE LET r == UploadWithRetry(outs)
         IN IF r.result
            THEN [data |-> Remove(data, n), pending |-> pending,
                  archive |-> Put(archive, n, data[n]),
                  s3 |-> Put(s3, S3Key(n), data[n].frames),
                  success |-> TRUE, attempts |-> r.attempts, sleeps |-> r.sleeps]
            ELSE IF n \notin DOMAIN pending
                 THEN [data |-> Remove(data, n), pending |-> Put(pending, n, data[n]),
                       archive |-> archive, s3 |-> s3,
                       success |-> FALSE, attempts |-> r.attempts, sleeps |-> r.sleeps]
                 ELSE [data |-> data, pending |-> pending, archive |-> archive, s3 |-> s3,
                       success |-> FALSE, attempts |-> r.attempts, sleeps |-> r.sleeps]

\* the for loop of retry_pending over the listed files; outs[n] is what the
\* attempts for the file named n end in
RECURSIVE RetryPendingLoop(_, _, _)
RetryPendingLoop(files, outs, acc) ==
    IF files = <<>> THEN acc
    ELSE LET n == Head(files)
             r == UploadWithRetry(outs[n])
             tried == [acc EXCEPT !.attempts = @ + r.attempts,
                                  !.sleeps = @ \o r.sleeps]
         IN IF n \in DOMAIN acc.pending /\ r.result
            THEN RetryPendingLoop(Tail(files), outs,
                     [tried EXCEPT !.s3 = Put(@, S3KeyFlat(n), acc.pending[n].frames),
                                   !.archive = Put(@, n, acc.pending[n]),
                                   !.pending = Remove(@, n),
                                   !.success_count = @ + 1])
            ELSE RetryPendingLoop(Tail(files), outs,
                     [tried EXCEPT !.fail_count = @ + 1])

\* mutant of RetryPending: a file whose upload fails is not counted
RetryPendingFailUncounted(order, outs, pending, archive, s3) ==
    LET r == RetryPendingLoop(Glob(pending, order), outs,
                 [pending |-> pending, archive |-> archive, s3 |-> s3,
                  success_count |-> 0, fail_count |-> 0,
                  attempts |-> 0, sleeps |-> <<>>])
    IN [r EXCEPT !.fail_count = 0]

\* mutant of RetryPending: an uploaded file is copied to the archive and left
\* in the pending directory
RetryPendingKeepsFile(order, outs, pending, archive, s3) ==
    LET r == RetryPendingLoop(Glob(pending, order), outs,
                 [pending |-> pending, archive |-> archive, s3 |-> s3,
                  success_count |-> 0, fail_count |-> 0,
                  attempts |-> 0, sleeps |-> <<>>])
    IN [r EXCEPT !.pending = pending]

\* retry_pending(): the directories, the remote store and the counts after it
RetryPending(order, outs, pending, archive, s3) ==
    RetryPendingLoop(Glob(pending, order), outs,
        [pending |-> pending, archive |-> archive, s3 |-> s3,
         success_count |-> 0, fail_count |-> 0, attempts |-> 0, sleeps |-> <<>>])

\* the attempt outcomes tried: j retryable failures of one kind, then "ok" or
\* "other" for the rest (what follows the attempt that ends the loop is never read)
AttemptOutcomes ==
    {[i \in 1..max_retries |-> IF i <= j THEN k ELSE f] :
        j \in 0..max_retries, k \in {"conn", "client", "denied"}, f \in {"ok", "other"}}

----------------------------------------------------------------------------
(* The batcher alone: frames with any timestamps are added, flush is called *)

InitRest ==
    /\ current_batch = <<>> /\ batch_start_time = None
    /\ clock = 0 /\ fed = 0 /\ polls = 0 /\ s3_objects = EmptyDir
    /\ op = "init" /\ arg = None /\ ret = None
    /\ attempts = 0 /\ sleeps = <<>>
    /\ evict_log = <<>> /\ evict_errors = <<>>
    /\ pc = "start" /\ cur_path = None /\ shutdown_event = FALSE /\ running = FALSE
    /\ batch_count = 0 /\ upload_success = 0 /\ upload_failed = 0 /\ exit_code = None
    /\ worker_pc = "wait" /\ worker_files = <<>>
    /\ reader_pc = "new" /\ reconnect_delay = ReconnectDelayInit
    /\ stats = [frames |-> 0, errors |-> 0, bus_off |-> 0]
    /\ stopped = FALSE /\ reconnects = 0
    /\ fatal = FALSE /\ raising = FALSE /\ stats_files = {}
    /\ up_pc = "idle" /\ up_backoff = 0 /\ sleep_left = 0
    /\ s3_multipart = {}
    /\ el_pc = "idle"
    /\ threads = {} /\ health_pc = "wait" /\ beats = 0 /\ simulate = FALSE

InitState ==
    /\ InitRest
    /\ data_dir = EmptyDir /\ pending_dir = EmptyDir /\ archive_dir = EmptyDir

BatcherInit ==
    /\ InitState
    /\ window_sec \in 1..MaxWindowSec
    /\ max_frames \in 1..MaxMaxFrames
    /\ max_retries = 1 /\ initial_backoff_sec = 1 /\ max_backoff_sec = 1
    /\ max_queue_size = 1 /\ max_disk_bytes = 1 /\ upload_enabled = TRUE

BAddFrame ==
    /\ fed < MaxFed
    /\ \E t \in 0..MaxTs :
        LET frame == CANFrame(fed + 1, t)
            r == AddFrameResult(current_batch, batch_start_time, data_dir, frame, clock)
        IN /\ current_batch' = r.batch
           /\ batch_start_time' = r.start
           /\ data_dir' = r.dir
           /\ fed' = fed + 1
           /\ op' = "add_frame" /\ arg' = frame /\ ret' = r.path
    /\ UNCHANGED <<cfgVars, stepVars, readerVars, pending_dir, archive_dir, clock, polls, s3_objects,
                   uploaderVars, bufferVars, agentVars, workerVars>>

BFlush ==
    /\ LET r == FlushResult(current_batch, batch_start_time, data_dir, clock)
       IN /\ current_batch' = r.batch
          /\ batch_start_time' = r.start
          /\ data_dir' = r.dir
          /\ op' = "flush" /\ arg' = None /\ ret' = r.path
    /\ UNCHANGED <<cfgVars, stepVars, readerVars, pending_dir, archive_dir, envVars, uploaderVars,
                   bufferVars, agentVars, workerVars>>

\* the frame stream given to process_frames ends, or raises
BStreamEnd ==
    /\ \E raised \in BOOLEAN :
        LET r == ProcessFramesEnd(current_batch, batch_start_time, data_dir, clock, raised)
        IN /\ current_batch' = r.batch
           /\ batch_start_time' = r.start
           /\ data_dir' = r.dir
           /\ op' = "stream_end" /\ arg' = raised /\ ret' = r.path
    /\ UNCHANGED <<cfgVars, stepVars, readerVars, pending_dir, archive_dir, envVars, uploaderVars,
                   bufferVars, agentVars, workerVars>>

BatcherNext == BAddFrame \/ BFlush \/ BStreamEnd

SpecBatcher == BatcherInit /\ [][BatcherNext]_vars

----------------------------------------------------------------------------
(* Claims about the batcher, checked under SpecBatcher *)

InBatch(id) == \E i \in 1..Len(current_batch) : current_batch[i].id = id

FilesHolding(dir, id) ==
    {n \in DOMAIN dir : \E i \in 1..Len(dir[n].frames) : dir[n].frames[i].id = id}

\* C1: every frame fed to the batcher is, at every moment, either in the open
\* batch or in the content of exactly one on-disk file; no flush makes the
\* frames of an earlier flush disappear.
C1_NoFrameLost ==
    \A id \in 1..fed :
        \/ InBatch(id) /\ FilesHolding(data_dir, id) = {}
        \/ ~InBatch(id) /\ Cardinality(FilesHolding(data_dir, id)) = 1

\* the frame the add_frame call of this step was given, and the start time
\* of the batch it joined
WindowNotElapsed ==
    LET s == IF current_batch = <<>> THEN arg'.timestamp ELSE batch_start_time
    IN arg'.timestamp - s < window_sec * TicksPerSec

JoinedStart == IF current_batch = <<>> THEN arg'.timestamp ELSE batch_start_time

C12_EmptyFlushNoOp ==
    /\ [][ (op' \in {"flush", "stream_end"} /\ current_batch = <<>>) =>
             (ret' = None /\ data_dir' = data_dir /\ UNCHANGED batcherVars) ]_vars
    /\ [](\A s \in {None} \cup (0..MaxTs), t \in 0..MaxTs : ~ShouldFlush(<<>>, s, t))
    /\ [](\A n \in DOMAIN data_dir :
             Len(data_dir[n].frames) > 0 /\ Len(data_dir[n].rows) > 0)

\* C12 witness: flush() was called on an empty batch after files had been emitted
C12_Witness ==
    /\ op = "flush" /\ ret = None /\ current_batch = <<>>
    /\ batch_start_time = None /\ data_dir # EmptyDir

\* C13: when the frame stream given to process_frames ends or raises, every
\* frame of the open batch is written to a file (in order) and the batch is
\* empty afterwards: current_batch = [], batch_start_time unset.
C13_FinalFlush ==
    [][ op' = "stream_end" =>
          /\ current_batch' = <<>> /\ batch_start_time' = None
          /\ current_batch # <<>> =>
                /\ ret' # None /\ ret' \in DOMAIN data_dir'
                /\ data_dir'[ret'].frames = current_batch
                /\ data_dir'[ret'].rows = FramesToTable(current_batch)
      ]_vars

\* C13 witness: the stream raised with two or more frames in the open batch,
\* and they were written
C13_Witness ==
    /\ op = "stream_end" /\ arg = TRUE /\ ret # None /\ ret \in DOMAIN data_dir
    /\ Len(data_dir[ret].frames) >= 2 /\ current_batch = <<>>

RECURSIVE MaxTimestamp(_)
MaxTimestamp(frames) ==
    IF Len(frames) = 1 THEN frames[1].timestamp
    ELSE Max(frames[1].timestamp, MaxTimestamp(Tail(frames)))

\* C17: for every file the batcher has emitted, with T the batch start time
\* its name carries: T <= the first frame's timestamp, and the largest frame
\* timestamp in the file is at most T + window_sec or the file holds exactly
\* max_frames frames.
C17_FileWithinWindow ==
    \A n \in DOMAIN data_dir :
        LET f == data_dir[n].frames
            T == n * TicksPerSec
        IN /\ T <= f[1].timestamp
           /\ \/ MaxTimestamp(f) - T <= window_sec * TicksPerSec
              \/ Len(f) = max_frames

\* the files of dir in emission order: batches are runs of consecutive input
\* frames, so a file emitted earlier starts with an earlier frame
RECURSIVE ConcatRows(_, _)
ConcatRows(dir, S) ==
    IF S = {} THEN <<>>
    ELSE LET n == CHOOSE x \in S : \A y \in S : dir[x].frames[1].id <= dir[y].frames[1].id
         IN dir[n].rows \o ConcatRows(dir, S \ {n})

\* C18: the rows of each emitted file are the frames added since the previous
\* flush, in add_frame order, payload unchanged and the batcher's vehicle_id on
\* every row; the files read back in emission order give the payloads of the
\* input frames emitted so far, in input order.
C18_RoundTrip ==
    /\ [][ ret' # None =>
             LET b == IF op' = "add_frame" THEN Append(current_batch, arg')
                      ELSE current_batch
             IN /\ Len(data_dir'[ret'].rows) = Len(b)
                /\ \A i \in 1..Len(b) :
                      /\ data_dir'[ret'].rows[i].payload = b[i].id
                      /\ data_dir'[ret'].rows[i].vehicle_id = VehicleId ]_vars
    /\ [](LET rows == ConcatRows(data_dir, DOMAIN data_dir)
          IN /\ Len(rows) = fed - Len(current_batch)
             /\ \A i \in 1..Len(rows) : rows[i].payload = i)

\* C25: any two distinct batches flushed by one batcher are written to
\* distinct output paths, batches that start within the same UTC second
\* included: a flush never returns the path of a file an earlier flush wrote.
C25_DistinctPaths ==
    [][ (op' \in {"add_frame", "flush", "stream_end"} /\ ret' # None) =>
          ret' \notin DOMAIN data_dir ]_vars

----------------------------------------------------------------------------
(* The batcher fed by the hardware reader: read_frames stamps each message *)
(* with the timestamp the interface reports, or with the local clock when  *)
(* that timestamp is absent or zero, and process_frames passes the frame   *)
(* to add_frame.  The interface may report any timestamp; the local clock  *)
(* advances.                                                               *)

\* t = float(msg.timestamp) if msg.timestamp else time.time()
FrameTimestamp(msg_timestamp, now) ==
    IF msg_timestamp # 0 THEN msg_timestamp ELSE now

\* bus.recv returns a data frame; read_frames yields it, add_frame takes it
CapRecvFrame ==
    /\ fed < MaxFed
    /\ \E msg_timestamp \in 0..MaxTs :
        LET frame == CANFrame(fed + 1, FrameTimestamp(msg_timestamp, clock))
            r == AddFrameResult(current_batch, batch_start_time, data_dir, frame, clock)
        IN /\ current_batch' = r.batch
           /\ batch_start_time' = r.start
           /\ data_dir' = r.dir
           /\ fed' = fed + 1
           /\ op' = "add_frame" /\ arg' = frame /\ ret' = r.path
    /\ UNCHANGED <<cfgVars, stepVars, readerVars, pending_dir, archive_dir, clock, polls, s3_objects,
                   uploaderVars, bufferVars, agentVars, workerVars>>

\* time.time() moves on
CapTick ==
    /\ clock < AgentMaxClock
    /\ clock' = clock + 1
    /\ UNCHANGED <<cfgVars, stepVars, readerVars, batcherVars, dirVars, fed, polls, s3_objects,
                   callVars, uploaderVars, bufferVars, agentVars, workerVars>>

CaptureNext == CapTick \/ CapRecvFrame

SpecCapture == BatcherInit /\ [][CaptureNext]_vars

\* C38: the start time of every batch is the timestamp of its first frame and
\* is not later than the timestamp of any frame of the batch, whatever the
\* reader yields; and the files are emitted in non-decreasing order of their
\* start times (compared as the file names carry them, by the second).
C38_BatchStartIsEarliest ==
    /\ [](current_batch # <<>> =>
            /\ batch_start_time = current_batch[1].timestamp
            /\ \A i \in 1..Len(current_batch) :
                  batch_start_time <= current_batch[i].timestamp)
    /\ [][ (op' = "add_frame" /\ ret' # None) =>
             LET frames == data_dir'[ret'].frames
             IN /\ ret' = GetOutputPath(frames[1].timestamp)
                /\ \A i \in 1..Len(frames) : frames[1].timestamp <= frames[i].timestamp
                /\ \A n \in DOMAIN data_dir : n <= ret' ]_vars

----------------------------------------------------------------------------
(* The batcher with the file write in steps: pq.write_table opens the      *)
(* output path for writing (creating or truncating the file of that name), *)
(* writes the rows and finishes the file with its footer on close.  While  *)
(* a write is in progress (op = "writing") the write can fail or the       *)
(* process can be stopped.                                                 *)

\* the file under output_path while pq.write_table is writing it: the first k
\* rows of the table, no footer yet
PartialFile(frames, k, now) ==
    [frames |-> SubSeq(frames, 1, k), rows |-> SubSeq(FramesToTable(frames), 1, k),
     mtime |-> now, size |-> k, footer |-> FALSE]

\* _write_batch up to the middle of pq.write_table(table, output_path, ...)
OpenForWrite(dir, frames, start_time, k, now) ==
    Put(dir, GetOutputPath(start_time), PartialFile(frames, k, now))

IsPartial(f) == "footer" \in DOMAIN f

\* add_frame: appends, and when should_flush says so enters flush and
\* _write_batch; the batch is reset only after _write_batch has returned
BIOAddFrame ==
    /\ op \notin {"writing", "stopped"}
    /\ fed < MaxFed
    /\ \E t \in 0..MaxTs :
        LET frame == CANFrame(fed + 1, t)
            s == IF current_batch = <<>> THEN frame.timestamp ELSE batch_start_time
            b == Append(current_batch, frame)
        IN /\ current_batch' = b
           /\ batch_start_time' = s
           /\ fed' = fed + 1
           /\ arg' = frame /\ ret' = None
           /\ IF ShouldFlush(b, s, frame.timestamp)
              THEN /\ op' = "writing"
                   /\ \E k \in 0..Len(b) : data_dir' = OpenForWrite(data_dir, b, s, k, clock)
              ELSE /\ op' = "add_frame"
                   /\ data_dir' = data_dir
    /\ UNCHANGED <<cfgVars, stepVars, readerVars, pending_dir, archive_dir, clock, polls, s3_objects,
                   uploaderVars, bufferVars, agentVars, workerVars>>

\* flush() called directly: nothing for an empty batch, else _write_batch begins
BIOFlush ==
    /\ op \notin {"writing", "stopped"}
    /\ arg' = None /\ ret' = None
    /\ IF current_batch = <<>>
       THEN /\ op' = "flush"
            /\ UNCHANGED <<batcherVars, data_dir>>
       ELSE LET s == IF batch_start_time = None THEN current_batch[1].timestamp
                     ELSE batch_start_time
            IN /\ op' = "writing"
               /\ batch_start_time' = s
               /\ UNCHANGED current_batch
               /\ \E k \in 0..Len(current_batch) :
                     data_dir' = OpenForWrite(data_dir, current_batch, s, k, clock)
    /\ UNCHANGED <<cfgVars, stepVars, readerVars, pending_dir, archive_dir, envVars, uploaderVars,
                   bufferVars, agentVars, workerVars>>

\* pq.write_table returns: the file is complete, flush resets the batch and
\* returns the path
BIOWriteClose ==
    /\ op = "writing"
    /\ LET r == FlushResult(current_batch, batch_start_time, data_dir, clock)
       IN /\ current_batch' = r.batch
          /\ batch_start_time' = r.start
          /\ data_dir' = r.dir
          /\ op' = "flush" /\ ret' = r.path
    /\ UNCHANGED <<cfgVars, stepVars, readerVars, pending_dir, archive_dir, envVars, arg, uploaderVars,
                   bufferVars, agentVars, workerVars>>

\* pq.write_table raises (disk full, I/O error): pyarrow tries to remove the
\* file it was writing, ignoring a failure to do so, and re-raises; flush has
\* not reset the batch
BIOWriteError ==
    /\ op = "writing"
    /\ \E removed \in BOOLEAN :
         data_dir' = IF removed THEN Remove(data_dir, GetOutputPath(batch_start_time))
                     ELSE data_dir
    /\ op' = "write_raised"
    /\ UNCHANGED <<cfgVars, stepVars, readerVars, batcherVars, pending_dir, archive_dir, envVars,
                   arg, ret, uploaderVars, bufferVars, agentVars, workerVars>>

\* the process is stopped (killed, power loss) in the middle of the write
BIOProcessStop ==
    /\ op = "writing"
    /\ op' = "stopped"
    /\ UNCHANGED <<cfgVars, stepVars, readerVars, batcherVars, dirVars, envVars,
                   arg, ret, uploaderVars, bufferVars, agentVars, workerVars>>

BatcherIONext ==
    BIOAddFrame \/ BIOFlush \/ BIOWriteClose \/ BIOWriteError \/ BIOProcessStop

SpecBatcherIO == BatcherInit /\ [][BatcherIONext]_vars

\* C24: output files are write-once and atomically published: at no reachable
\* state (a write error or a process stop in the middle of writing a batch
\* included) is a partially written file visible under its final name.
C24_NoPartialFile ==
    \A n \in DOMAIN data_dir : ~IsPartial(data_dir[n])

----------------------------------------------------------------------------
(* The offline buffer alone: any small content of the pending directory    *)
(* (or one large directory, so that a tenth of it is more than one file),  *)
(* any limits; each behaviour applies one call of enforce_limits,          *)
(* evict_oldest or add_to_pending to the directory Init has drawn.         *)
(* An unlink raises for the names in failing, chosen per call.             *)

FileSizes == 1..2

FileMeta == [frames : {<<>>}, mtime : 1..MaxMtime, size : FileSizes]

SmallDirs == UNION {[T -> FileMeta] : T \in SUBSET (1..MaxFiles)}

BulkDir == [n \in 1..BulkFiles |-> [frames |-> <<>>, mtime |-> n, size |-> 1]]

RECURSIVE Ascending(_)
Ascending(S) ==
    IF S = {} THEN <<>>
    ELSE LET m == CHOOSE x \in S : \A y \in S : x <= y
         IN <<m>> \o Ascending(S \ {m})

RECURSIVE Descending(_)
Descending(S) ==
    IF S = {} THEN <<>>
    ELSE LET m == CHOOSE x \in S : \A y \in S : x >= y
         IN <<m>> \o Descending(S \ {m})

\* the listing orders tried: every order of up to three names, else by name
Orders(dir) ==
    IF Cardinality(DOMAIN dir) <= 3 THEN Perms(DOMAIN dir)
    ELSE {Ascending(DOMAIN dir), Descending(DOMAIN dir)}

Failing(dir) == {{}, DOMAIN dir} \cup {{n} : n \in DOMAIN dir}

BufferInit ==
    /\ InitRest
    /\ data_dir = EmptyDir /\ archive_dir = EmptyDir
    /\ window_sec = 1 /\ max_frames = 1
    /\ max_retries = 1 /\ initial_backoff_sec = 1 /\ max_backoff_sec = 1
    /\ upload_enabled = TRUE
    /\ \/ /\ pending_dir \in SmallDirs
          /\ max_queue_size \in 0..MaxQueueSize
          /\ max_disk_bytes \in 0..MaxDiskBytes
       \/ /\ pending_dir = BulkDir
          /\ max_queue_size \in {MaxQueueSize, BulkFiles}
          /\ max_disk_bytes \in {MaxDiskBytes, BulkFiles - 3}

OBEnforceLimits ==
    /\ op = "init"
    /\ \E order \in Orders(pending_dir), failing \in Failing(pending_dir) :
        \E r \in {EnforceLimits(pending_dir, order, failing)} :
           /\ pending_dir' = r.dir
           /\ evict_log' = r.log
           /\ evict_errors' = r.errors
           /\ op' = "enforce_limits" /\ arg' = None /\ ret' = None
    /\ UNCHANGED <<cfgVars, stepVars, readerVars, batcherVars, data_dir, archive_dir, envVars,
                   uploaderVars, agentVars, workerVars>>

OBEvictOldest ==
    /\ op = "init"
    /\ \E count \in 0..MaxFiles, order \in Orders(pending_dir),
          failing \in Failing(pending_dir) :
        \E r \in {EvictOldest(pending_dir, count, order, failing)} :
           /\ pending_dir' = r.dir
           /\ evict_log' = r.log
           /\ evict_errors' = r.errors
           /\ op' = "evict_oldest" /\ arg' = count /\ ret' = r.evicted
    /\ UNCHANGED <<cfgVars, stepVars, readerVars, batcherVars, data_dir, archive_dir, envVars,
                   uploaderVars, agentVars, workerVars>>

\* add_to_pending(file_path), file_path named n: either the file does not exist
\* or shutil.move raises, and False is returned; or the file (src) is moved
\* into pending, replacing a same-named file, and enforce_limits is called
OBAddToPending ==
    /\ op = "init"
    /\ \E n \in 1..(MaxFiles + 1) :
        \/ /\ UNCHANGED pending_dir
           /\ evict_log' = <<>> /\ evict_errors' = <<>>
           /\ op' = "add_to_pending" /\ arg' = n /\ ret' = FALSE
        \/ \E src \in FileMeta :
             \E order \in Orders(Put(pending_dir, n, src)),
                failing \in Failing(Put(pending_dir, n, src)) :
               \E r \in {EnforceLimits(Put(pending_dir, n, src), order, failing)} :
                  /\ pending_dir' = r.dir
                  /\ evict_log' = r.log
                  /\ evict_errors' = r.errors
                  /\ op' = "add_to_pending" /\ arg' = n /\ ret' = TRUE
    /\ UNCHANGED <<cfgVars, stepVars, readerVars, batcherVars, data_dir, archive_dir, envVars,
                   uploaderVars, agentVars, workerVars>>

\* the getters: they list the directory and stat its files
OBGetPendingFiles ==
    /\ op = "init"
    /\ \E order \in Orders(pending_dir) :
          /\ op' = "get_pending_files" /\ arg' = None
          /\ ret' = GetPendingFiles(pending_dir, order)
    /\ UNCHANGED <<cfgVars, stepVars, readerVars, batcherVars, dirVars, envVars,
                   uploaderVars, bufferVars, agentVars, workerVars>>

OBGetDiskUsage ==
    /\ op = "init"
    /\ op' = "get_disk_usage" /\ arg' = None
    /\ ret' = GetDiskUsage(pending_dir)
    /\ UNCHANGED <<cfgVars, stepVars, readerVars, batcherVars, dirVars, envVars,
                   uploaderVars, bufferVars, agentVars, workerVars>>

OBGetStats ==
    /\ op = "init"
    /\ \E order \in Orders(pending_dir) :
          /\ op' = "get_stats" /\ arg' = None
          /\ ret' = GetStats(pending_dir, order)
    /\ UNCHANGED <<cfgVars, stepVars, readerVars, batcherVars, dirVars, envVars,
                   uploaderVars, bufferVars, agentVars, workerVars>>

BufferNext ==
    \/ OBEnforceLimits \/ OBEvictOldest \/ OBAddToPending
    \/ OBGetPendingFiles \/ OBGetDiskUsage \/ OBGetStats

SpecBuffer == BufferInit /\ [][BufferNext]_vars

----------------------------------------------------------------------------
(* Claims about the offline buffer, checked under SpecBuffer *)

WithinLimits ==
    /\ Cardinality(DOMAIN pending_dir) <= max_queue_size
    /\ GetDiskUsage(pending_dir) <= max_disk_bytes

EnforceReturned == op = "enforce_limits" \/ (op = "add_to_pending" /\ ret = TRUE)

Evicting == op \in {"enforce_limits", "evict_oldest", "add_to_pending"}

LogSet(log) == {log[i] : i \in 1..Len(log)}

\* C8 as stated: every file that remains in pending after a call has a
\* modification time >= that of every file the call deleted.  (Violated: a
\* file whose unlink raised stays, while newer files are deleted.)
C8_OldestFirst ==
    Evicting =>
        \A e \in LogSet(evict_log) : \A n \in DOMAIN pending_dir :
            pending_dir[n].mtime >= e.mtime

\* C8 amended: every file that remains in pending after a call, other than
\* the files whose unlink failed during that call, has a modification time >=
\* that of every file the call deleted.
C8_OldestFirstExceptFailedUnlink ==
    Evicting =>
        \A e \in LogSet(evict_log) :
            \A n \in (DOMAIN pending_dir) \ LogSet(evict_errors) :
                pending_dir[n].mtime >= e.mtime

\* C8 witness: a call deleted a file and left a strictly newer one
C8_Witness ==
    /\ Evicting /\ evict_errors = <<>>
    /\ \E e \in LogSet(evict_log) : \E n \in DOMAIN pending_dir :
          pending_dir[n].mtime > e.mtime

\* add_to_pending moved a file with a new name into a pending directory that
\* held exactly max_queue_size files within the byte limit
EnqueueAtLimit ==
    /\ op' = "add_to_pending" /\ ret' = TRUE
    /\ arg' \notin DOMAIN pending_dir
    /\ Cardinality(DOMAIN pending_dir) = max_queue_size
    /\ GetDiskUsage(pending_dir) <= max_disk_bytes

\* the size of the file that call enqueued: it is in the directory or in the log
EnqueuedSize ==
    IF arg' \in DOMAIN pending_dir' THEN pending_dir'[arg'].size
    ELSE LET i == CHOOSE j \in 1..Len(evict_log') : evict_log'[j].name = arg'
         IN evict_log'[i].size

\* exactly one file was evicted, none left is older, the count is max_queue_size
OneOldestEvicted ==
    /\ Len(evict_log') = 1
    /\ \A m \in DOMAIN pending_dir' : evict_log'[1].mtime <= pending_dir'[m].mtime
    /\ Cardinality(DOMAIN pending_dir') = max_queue_size

C40_NoEffectWithinLimits ==
    [][ /\ ( /\ op' = "enforce_limits"
             /\ Cardinality(DOMAIN pending_dir) <= max_queue_size
             /\ GetDiskUsage(pending_dir) <= max_disk_bytes ) =>
               /\ pending_dir' = pending_dir
               /\ evict_log' = <<>> /\ evict_errors' = <<>>
        /\ op' \in {"get_pending_files", "get_disk_usage", "get_stats"} =>
               /\ pending_dir' = pending_dir
               /\ UNCHANGED <<data_dir, archive_dir, evict_log, evict_errors>>
      ]_vars

\* C40 witness: enforce_limits has returned from a directory that holds
\* exactly max_queue_size files and exactly max_disk_bytes bytes, and no
\* unlink was attempted
C40_Witness ==
    /\ op = "enforce_limits"
    /\ pending_dir # EmptyDir
    /\ Cardinality(DOMAIN pending_dir) = max_queue_size
    /\ GetDiskUsage(pending_dir) = max_disk_bytes
    /\ evict_log = <<>> /\ evict_errors = <<>>

----------------------------------------------------------------------------
(* enforce_limits step by step: the queue-size check, then the             *)
(* disk-pressure loop, one iteration per step, on a pending directory of   *)
(* up to MaxFiles files.  The byte limit is int(max_disk_gb * 2^30) of an  *)
(* unvalidated configuration value, so it may be negative: then the        *)
(* directory is over the limit even when it is empty.  The listing order   *)
(* and the unlinks that fail are chosen anew for every evict_oldest call.  *)

EnforceInit ==
    /\ InitRest
    /\ data_dir = EmptyDir /\ archive_dir = EmptyDir
    /\ window_sec = 1 /\ max_frames = 1
    /\ max_retries = 1 /\ initial_backoff_sec = 1 /\ max_backoff_sec = 1
    /\ upload_enabled = TRUE
    /\ pending_dir \in SmallDirs
    /\ max_queue_size \in 0..MaxQueueSize
    /\ max_disk_bytes \in -1..MaxDiskBytes

enforceRest == <<cfgVars, exitVars, retryVars, s3_multipart, monitorVars, readerVars,
                 batcherVars, data_dir, archive_dir, envVars, uploaderVars, agentVars,
                 workerVars>>

\* the queue-size check of enforce_limits
ELQueue ==
    /\ el_pc = "idle"
    /\ \E order \in Orders(pending_dir), failing \in Failing(pending_dir) :
        \E pending_files \in {GetPendingFiles(pending_dir, order)} :
        \E q \in {IF Len(pending_files) > max_queue_size
                  THEN EvictOldest(pending_dir, Len(pending_files) - max_queue_size,
                                   order, failing)
                  ELSE [dir |-> pending_dir, log |-> <<>>, errors |-> <<>>,
                        evicted |-> 0]} :
           /\ pending_dir' = q.dir
           /\ evict_log' = q.log
           /\ evict_errors' = q.errors
    /\ el_pc' = "disk"
    /\ op' = "enforce_limits" /\ arg' = None /\ ret' = None
    /\ UNCHANGED enforceRest

\* mutant of ELDiskIter: no break when evict_oldest has evicted nothing
ELDiskIterNoBreak ==
    /\ el_pc = "disk"
    /\ IF CheckDiskSpace(pending_dir)
       THEN el_pc' = "done" /\ UNCHANGED <<pending_dir, bufferVars>>
       ELSE \E order \in Orders(pending_dir), failing \in Failing(pending_dir) :
            \E pending_files \in {GetPendingFiles(pending_dir, order)} :
            IF pending_files = <<>>
            THEN el_pc' = "done" /\ UNCHANGED <<pending_dir, bufferVars>>
            ELSE \E evict_count \in {Max(1, Len(pending_files) \div EvictDivisor)} :
                 \E r \in {EvictOldest(pending_dir, evict_count, order, failing)} :
                    /\ pending_dir' = r.dir
                    /\ evict_log' = r.log
                    /\ evict_errors' = r.errors
                    /\ el_pc' = "disk"
    /\ UNCHANGED <<enforceRest, callVars>>

\* while not self.check_disk_space(): the test and one iteration of the body
ELDiskIter ==
    /\ el_pc = "disk"
    /\ IF CheckDiskSpace(pending_dir)
       THEN el_pc' = "done" /\ UNCHANGED <<pending_dir, bufferVars>>
       ELSE \E order \in Orders(pending_dir), failing \in Failing(pending_dir) :
            \E pending_files \in {GetPendingFiles(pending_dir, order)} :
            IF pending_files = <<>>
            THEN el_pc' = "done" /\ UNCHANGED <<pending_dir, bufferVars>>
            ELSE \E evict_count \in {Max(1, Len(pending_files) \div EvictDivisor)} :
                 \E r \in {EvictOldest(pending_dir, evict_count, order, failing)} :
                    /\ pending_dir' = r.dir
                    /\ evict_log' = r.log
                    /\ evict_errors' = r.errors
                    /\ el_pc' = IF r.evicted = 0 THEN "done" ELSE "disk"
    /\ UNCHANGED <<enforceRest, callVars>>

EnforceNext == ELQueue \/ ELDiskIter

SpecEnforce == EnforceInit /\ [][EnforceNext]_vars

\* the thread that called enforce_limits keeps running
SpecEnforceFair == SpecEnforce /\ WF_vars(EnforceNext)

\* C35: enforce_limits terminates for every state of the pending directory,
\* also when every unlink fails: each iteration of the disk-pressure loop
\* either removes at least one file or exits the loop.
C35_EnforceLimitsTerminates ==
    /\ [][ el_pc = "disk" =>
             \/ el_pc' = "done"
             \/ Cardinality(DOMAIN pending_dir') < Cardinality(DOMAIN pending_dir) ]_vars
    /\ (el_pc = "idle") ~> (el_pc = "done")

\* C35 witness: enforce_limits has returned with the directory still over the
\* byte limit, after an iteration in which every unlink failed
C35_Witness ==
    /\ el_pc = "done"
    /\ ~CheckDiskSpace(pending_dir)
    /\ evict_errors # <<>> /\ evict_log = <<>>

----------------------------------------------------------------------------
(* The uploader alone: any retry configuration, a data directory of up to  *)
(* two batch files, a pending directory that may hold files of the same    *)
(* names; upload is called on a path, with any outcome of its attempts.    *)

\* the batch file of second n as the batcher writes it, holding one frame
BatchFile(n, id) ==
    [frames |-> <<CANFrame(id, n * TicksPerSec)>>, mtime |-> n * TicksPerSec, size |-> 1]

UploaderNames == 0..1

UploaderInit ==
    /\ InitRest
    /\ window_sec = 1 /\ max_frames = 1
    /\ max_queue_size = 1 /\ max_disk_bytes = 1 /\ upload_enabled = TRUE
    /\ max_retries \in 1..MaxRetries
    /\ initial_backoff_sec \in 1..MaxInitialBackoff
    /\ max_backoff_sec \in 1..MaxMaxBackoff
    /\ \E D \in SUBSET UploaderNames : data_dir = [n \in D |-> BatchFile(n, n + 1)]
    /\ \E P \in SUBSET UploaderNames : pending_dir = [n \in P |-> BatchFile(n, n + 11)]
    /\ archive_dir = EmptyDir

UUpload ==
    /\ op = "init"
    /\ \E n \in UploaderNames, outs \in AttemptOutcomes :
        \E r \in {Upload(n, outs, data_dir, pending_dir, archive_dir, s3_objects)} :
           /\ data_dir' = r.data
           /\ pending_dir' = r.pending
           /\ archive_dir' = r.archive
           /\ s3_objects' = r.s3
           /\ attempts' = r.attempts
           /\ sleeps' = r.sleeps
           /\ op' = "upload" /\ arg' = [path |-> n, outs |-> outs] /\ ret' = r.success
    /\ UNCHANGED <<cfgVars, stepVars, readerVars, batcherVars, clock, fed, polls, bufferVars,
                   agentVars, workerVars>>

\* the outcomes tried for a pending file: the first attempt decides, or every
\* attempt fails retryably
PendingOutcomes ==
    {[i \in 1..max_retries |-> k] : k \in Outcomes}

URetryPending ==
    /\ \E order \in Perms(DOMAIN pending_dir), outs \in [DOMAIN pending_dir -> PendingOutcomes] :
        \E r \in {RetryPending(order, outs, pending_dir, archive_dir, s3_objects)} :
           /\ pending_dir' = r.pending
           /\ archive_dir' = r.archive
           /\ s3_objects' = r.s3
           /\ attempts' = r.attempts
           /\ sleeps' = r.sleeps
           /\ op' = "retry_pending" /\ arg' = [order |-> order, outs |-> outs]
           /\ ret' = <<r.success_count, r.fail_count>>
    /\ UNCHANGED <<cfgVars, stepVars, readerVars, batcherVars, data_dir, clock, fed, polls, bufferVars,
                   agentVars, workerVars>>

UploaderNext == UUpload \/ URetryPending

SpecUploader == UploaderInit /\ [][UploaderNext]_vars

----------------------------------------------------------------------------
(* Claims about the uploader, checked under SpecUploader *)

Retryable(o) == o \in {"conn", "client"}

AllAttemptsFailRetryably ==
    /\ op = "upload"
    /\ arg.path \in DOMAIN data_dir \cup DOMAIN pending_dir \cup DOMAIN archive_dir
    /\ attempts > 0
    /\ \A i \in 1..max_retries : Retryable(arg.outs[i])

RECURSIVE Pow2(_)
Pow2(k) == IF k <= 0 THEN 1 ELSE 2 * Pow2(k - 1)

\* C9: when every attempt fails with a retryable error, _upload_with_retry
\* makes exactly max_retries attempts and returns False; there are exactly
\* max_retries - 1 waits, the k-th (before attempt k+1) being
\* min(initial_backoff_sec * 2^(k-1), max_backoff_sec), none after the last attempt.
C9_BackoffSchedule ==
    AllAttemptsFailRetryably =>
        /\ attempts = max_retries
        /\ ret = FALSE
        /\ Len(sleeps) = max_retries - 1
        /\ \A k \in 1..Len(sleeps) :
              sleeps[k] = Min(initial_backoff_sec * Pow2(k - 1), max_backoff_sec)

\* the retry_pending call of this step uploaded and archived the file named n
RetriedOk(n) ==
    /\ op' = "retry_pending"
    /\ n \in DOMAIN pending_dir
    /\ arg'.outs[n][1] = "ok"

\* C15: if upload() failed for a file and a later retry_pending succeeds for
\* it, the file is in archive_dir under the same name and in neither data
\* staging nor pending_dir, as after a successful upload(); retry_pending
\* returns (n, 0) when all n pending files upload successfully, and in general
\* (s, f) with s + f the number of files enumerated.
C15_RetrySucceedsLikeUpload ==
    [][ op' = "retry_pending" =>
          /\ ret'[1] + ret'[2] = Cardinality(DOMAIN pending_dir)
          /\ (\A n \in DOMAIN pending_dir : arg'.outs[n][1] = "ok") =>
                ret' = <<Cardinality(DOMAIN pending_dir), 0>>
          /\ ret'[1] = Cardinality({n \in DOMAIN pending_dir : arg'.outs[n][1] = "ok"})
          /\ (op = "upload" /\ ret = FALSE /\ attempts > 0
                /\ arg.path \in DOMAIN pending_dir
                /\ arg.path \notin DOMAIN data_dir /\ RetriedOk(arg.path)) =>
                LET success == Upload(arg.path, [i \in 1..max_retries |-> "ok"],
                                      Put(data_dir, arg.path, pending_dir[arg.path]),
                                      Remove(pending_dir, arg.path), archive_dir, s3_objects)
                IN /\ arg.path \in DOMAIN archive_dir'
                   /\ arg.path \notin DOMAIN data_dir'
                   /\ arg.path \notin DOMAIN pending_dir'
                   /\ archive_dir'[arg.path] = success.archive[arg.path]
                   /\ arg.path \notin DOMAIN success.data
                   /\ arg.path \notin DOMAIN success.pending
      ]_vars

\* C15 witness: upload() failed for a file, which went to pending, and the
\* retry_pending that followed archived it while another pending file failed
C15_Witness ==
    /\ op = "retry_pending" /\ ret[1] >= 1 /\ ret[2] >= 1
    /\ \E n \in DOMAIN archive_dir :
          /\ archive_dir[n] = BatchFile(n, n + 1)
          /\ S3KeyFlat(n) \in DOMAIN s3_objects
          /\ s3_objects[S3KeyFlat(n)] = BatchFile(n, n + 1).frames
          /\ n \notin DOMAIN pending_dir /\ n \notin DOMAIN data_dir

\* C16 as stated: of two consecutive retry_pending calls the second returns
\* (0, 0), and with no pending file retry_pending returns (0, 0) and changes
\* no directory.
C16_RetryIdempotent ==
    [][ op' = "retry_pending" =>
          /\ op = "retry_pending" => ret' = <<0, 0>>
          /\ pending_dir = EmptyDir =>
                (ret' = <<0, 0>> /\ UNCHANGED <<dirVars, s3_objects>>)
      ]_vars

\* C16 amended: of two consecutive retry_pending calls the second returns
\* (0, 0) if the first reported no failure; in general the second enumerates
\* exactly the files the first failed on.  With no pending file retry_pending
\* returns (0, 0) and changes no directory.
C16_RetryIdempotentAfterSuccess ==
    [][ op' = "retry_pending" =>
          /\ op = "retry_pending" =>
                /\ ret[2] = 0 => ret' = <<0, 0>>
                /\ ret'[1] + ret'[2] = ret[2]
          /\ pending_dir = EmptyDir =>
                (ret' = <<0, 0>> /\ UNCHANGED <<dirVars, s3_objects>>)
      ]_vars

\* C16 witness: a retry_pending call that had uploaded two files is followed
\* by one that returns (0, 0)
C16_Witness ==
    /\ op = "retry_pending" /\ ret = <<0, 0>>
    /\ Cardinality(DOMAIN archive_dir) = 2 /\ pending_dir = EmptyDir
    /\ arg.order = <<>>

\* C27: upload() of a path that does not exist returns False, performs no
\* upload attempt, and leaves the remote store, pending_dir and archive_dir
\* (and data staging) unchanged.
C27_MissingPath ==
    [][ (op' = "upload" /\ arg'.path \notin DOMAIN data_dir) =>
          /\ ret' = FALSE
          /\ attempts' = 0 /\ sleeps' = <<>>
          /\ UNCHANGED <<dirVars, s3_objects>> ]_vars

\* C27 witness: upload() returned False without an attempt for a name that is
\* in no directory, while another file was in data staging and the remote
\* store would have accepted the first attempt
C27_Witness ==
    /\ op = "upload" /\ ret = FALSE /\ attempts = 0
    /\ arg.path \notin DOMAIN data_dir \cup DOMAIN pending_dir \cup DOMAIN archive_dir
    /\ data_dir # EmptyDir
    /\ arg.outs[1] = "ok"
    /\ s3_objects = EmptyDir

\* C28: on a non-retryable remote failure (authorization failure, missing
\* bucket, client-side encoding error) _upload_with_retry returns False after
\* exactly one attempt, without a backoff wait.
C28_NonRetryable ==
    (op = "upload" /\ attempts > 0 /\ arg.outs[1] \in {"denied", "other"}) =>
        (ret = FALSE /\ attempts = 1 /\ sleeps = <<>>)

\* C31: retry_pending attempts the pending files oldest first by modification
\* time: of two files enumerated in one call, the one with the smaller
\* modification time is attempted first (arg'.order is the order of the for loop).
C31_RetryOldestFirst ==
    [][ op' = "retry_pending" =>
          \A i, j \in 1..Len(arg'.order) :
             i < j => pending_dir[arg'.order[i]].mtime <= pending_dir[arg'.order[j]].mtime
      ]_vars

Transient(o) == o \in {"conn", "client"}

\* the first j attempts of this step's upload fail with a transient error and
\* attempt j + 1 is accepted
FailsThenSucceeds(j) ==
    /\ op' = "upload" /\ arg'.path \in DOMAIN data_dir
    /\ j < max_retries
    /\ \A i \in 1..j : Transient(arg'.outs[i])
    /\ arg'.outs[j + 1] = "ok"

----------------------------------------------------------------------------
(* The uploader and the pending directory's evictions in any order: the    *)
(* directories of UploaderInit, one or two attempts per upload; upload of  *)
(* a data file, retry_pending and evict_oldest are called again and again. *)

ArchiveInit ==
    /\ InitRest
    /\ window_sec = 1 /\ max_frames = 1
    /\ max_queue_size = 1 /\ max_disk_bytes = 1 /\ upload_enabled = TRUE
    /\ max_retries \in 1..2
    /\ initial_backoff_sec = 1 /\ max_backoff_sec = 1
    /\ \E D \in SUBSET UploaderNames : data_dir = [n \in D |-> BatchFile(n, n + 1)]
    /\ \E P \in SUBSET UploaderNames : pending_dir = [n \in P |-> BatchFile(n, n + 11)]
    /\ archive_dir = EmptyDir

ArUpload ==
    /\ \E n \in DOMAIN data_dir, outs \in AttemptOutcomes :
        \E r \in {Upload(n, outs, data_dir, pending_dir, archive_dir, s3_objects)} :
           /\ data_dir' = r.data
           /\ pending_dir' = r.pending
           /\ archive_dir' = r.archive
           /\ s3_objects' = r.s3
           /\ attempts' = r.attempts
           /\ sleeps' = r.sleeps
           /\ op' = "upload" /\ arg' = [path |-> n, outs |-> outs] /\ ret' = r.success
    /\ UNCHANGED <<cfgVars, stepVars, readerVars, batcherVars, clock, fed, polls, bufferVars,
                   agentVars, workerVars>>

ArEvictOldest ==
    /\ pending_dir # EmptyDir
    /\ \E count \in 1..MaxFiles, order \in Orders(pending_dir),
          failing \in Failing(pending_dir) :
        \E r \in {EvictOldest(pending_dir, count, order, failing)} :
           /\ pending_dir' = r.dir
           /\ evict_log' = r.log
           /\ evict_errors' = r.errors
           /\ op' = "evict_oldest" /\ arg' = count /\ ret' = r.evicted
    /\ UNCHANGED <<cfgVars, stepVars, readerVars, batcherVars, data_dir, archive_dir, envVars,
                   uploaderVars, agentVars, workerVars>>

ArchiveNext == ArUpload \/ URetryPending \/ ArEvictOldest

SpecArchive == ArchiveInit /\ [][ArchiveNext]_vars

\* the step puts the file named n into the archive, or replaces the one there
Archived(n) ==
    /\ n \in DOMAIN archive_dir'
    /\ n \in DOMAIN archive_dir => archive_dir'[n] # archive_dir[n]

\* the step takes the file named n out of the directory: dir before, dir2 after
Leaves(n, dir, dir2) == n \in DOMAIN dir /\ n \notin DOMAIN dir2

\* C39: a file enters archive_dir only in a call of upload or retry_pending in
\* which the remote store accepted that very file, under the key the call
\* uses; and the uploader takes a file out of data staging or pending_dir only
\* once attempts have been made, to the archive if one was accepted and (from
\* data staging) to pending_dir if none was: it deletes nothing.
C39_ArchivedMeansUploaded ==
    [][ /\ \A n \in UploaderNames :
            Archived(n) =>
               \/ /\ op' = "upload" /\ arg'.path = n /\ ret' = TRUE
                  /\ arg'.outs[attempts'] = "ok"
                  /\ archive_dir'[n] = data_dir[n]
                  /\ s3_objects'[S3Key(n)] = archive_dir'[n].frames
               \/ /\ op' = "retry_pending"
                  /\ arg'.outs[n][1] = "ok"
                  /\ archive_dir'[n] = pending_dir[n]
                  /\ s3_objects'[S3KeyFlat(n)] = archive_dir'[n].frames
        /\ \A n \in UploaderNames :
            /\ (op' = "upload" /\ Leaves(n, data_dir, data_dir')) =>
                  /\ attempts' >= 1 /\ arg'.path = n
                  /\ IF ret' THEN archive_dir'[n] = data_dir[n]
                             ELSE /\ pending_dir'[n] = data_dir[n]
                                  /\ arg'.outs[attempts'] # "ok"
            /\ (op' = "retry_pending" /\ Leaves(n, pending_dir, pending_dir')) =>
                  /\ attempts' >= 1
                  /\ arg'.outs[n][1] = "ok"
                  /\ archive_dir'[n] = pending_dir[n]
      ]_vars

\* C39 witness: after an eviction, a retry_pending pass has archived a pending
\* file next to a file that upload archived; both are in the remote store
C39_Witness ==
    /\ op = "retry_pending" /\ ret[1] = 1
    /\ evict_log # <<>>
    /\ DOMAIN archive_dir = UploaderNames
    /\ \E n \in UploaderNames :
          /\ S3Key(n) \in DOMAIN s3_objects
          /\ s3_objects[S3Key(n)] = archive_dir[n].frames
    /\ \E n \in UploaderNames :
          /\ S3KeyFlat(n) \in DOMAIN s3_objects
          /\ s3_objects[S3KeyFlat(n)] = archive_dir[n].frames

----------------------------------------------------------------------------
(* The remote key alone: _get_s3_key applied to any path of up to MaxParts *)
(* components over a two-letter alphabet, with one of two prefixes.        *)

PathChars == {"d", "="}

Components == UNION {[1..k -> PathChars] : k \in 1..MaxPartLen}

LocalPaths == UNION {[1..k -> Components] : k \in 1..MaxParts}

Prefixes == {<<"r">>, <<"r", "/", "p">>}

S3KeyInit ==
    /\ InitState
    /\ window_sec = 1 /\ max_frames = 1
    /\ max_retries = 1 /\ initial_backoff_sec = 1 /\ max_backoff_sec = 1
    /\ max_queue_size = 1 /\ max_disk_bytes = 1 /\ upload_enabled = TRUE

UGetS3Key ==
    /\ op = "init"
    /\ \E prefix \in Prefixes, parts \in LocalPaths :
          /\ op' = "get_s3_key"
          /\ arg' = [prefix |-> prefix, parts |-> parts]
          /\ ret' = [key |-> GetS3Key(prefix, parts),
                     key_parts |-> GetS3KeyParts(prefix, parts)]
    /\ UNCHANGED <<cfgVars, stepVars, readerVars, batcherVars, dirVars, envVars, uploaderVars,
                   bufferVars, agentVars, workerVars>>

S3KeyNext == UGetS3Key

SpecS3Key == S3KeyInit /\ [][S3KeyNext]_vars

\* the directory components of a path: all but the last
DirParts(parts) == SubSeq(parts, 1, Len(parts) - 1)

\* C19: the remote key is the prefix, then exactly the path's partition
\* segments (the directory components of the form k=v) in path order, then the
\* file name, joined by "/"; no other component is in the key and the file
\* name is in it exactly once.
C19_KeyIsPrefixPartitionsName ==
    op = "get_s3_key" =>
        LET parts == arg.parts
            name == parts[Len(parts)]
            expected == <<arg.prefix>> \o SelectSeq(DirParts(parts), HasEquals) \o <<name>>
        IN /\ ret.key = Join(expected)
           /\ ret.key_parts = expected

----------------------------------------------------------------------------
(* The hardware reader alone: the read_frames generator, driven by a       *)
(* consumer that asks for the next frame, with stop() called from another  *)
(* thread at any moment.  reader_pc is the generator's position: "new"     *)
(* (created, body not yet entered), "connect" (at the test of a reconnect  *)
(* loop), "sleep" (in reconnect's time.sleep), "test" (at while            *)
(* self._running), "recv" (in bus.recv), "yielded" (suspended at yield),   *)
(* "done" (returned), "raised" (left by an exception).                     *)

ReaderInit ==
    /\ InitState
    /\ window_sec = 1 /\ max_frames = 1
    /\ max_retries = 1 /\ initial_backoff_sec = 1 /\ max_backoff_sec = 1
    /\ max_queue_size = 1 /\ max_disk_bytes = 1 /\ upload_enabled = TRUE

readerRest == <<cfgVars, stepVars, batcherVars, dirVars, clock, polls, s3_objects, uploaderVars,
                bufferVars, pc, cur_path, shutdown_event, batch_count,
                upload_success, upload_failed, exit_code, workerVars>>

\* stop(): self._running = False
RStop ==
    /\ running' = FALSE
    /\ stopped' = TRUE
    /\ op' = "stop" /\ arg' = None /\ ret' = None
    /\ UNCHANGED <<readerRest, reconnects, fed, reader_pc, reconnect_delay, stats>>

\* what can.Bus(**kwargs) ends in: the bus is opened, can.CanError is raised
\* (caught by connect, which returns False), or an exception of another class
\* is raised (OSError, ValueError, ...), which connect does not catch
ConnectOutcomes == {"ok", "can_error", "os_error"}

\* where read_frames continues after connect(): at its main loop, at the test
\* of the reconnect loop, or nowhere, the exception leaving the generator
AfterConnect(outcome) ==
    IF outcome = "ok" THEN "test"
    ELSE IF outcome = "can_error" THEN "connect"
    ELSE "raised"

\* the first next(): the body is entered, self._running = True, connect()
RFirstNext ==
    /\ reader_pc = "new"
    /\ running' = TRUE
    /\ \E outcome \in ConnectOutcomes :
          /\ reader_pc' = AfterConnect(outcome)
          /\ reconnect_delay' = IF outcome = "ok" THEN ReconnectDelayInit ELSE reconnect_delay
    /\ reconnects' = 0
    /\ op' = "connect" /\ arg' = None /\ ret' = None
    /\ UNCHANGED <<readerRest, fed, stats, stopped>>

\* while self._running and not self.reconnect(): the test of _running, and
\* reconnect() up to its sleep
RReconnectTest ==
    /\ reader_pc = "connect"
    /\ reader_pc' = IF running THEN "sleep" ELSE "test"
    /\ op' = "reconnect" /\ arg' = None
    /\ ret' = IF running THEN reconnect_delay ELSE None
    /\ UNCHANGED <<readerRest, reconnects, fed, running, reconnect_delay, stats, stopped>>

\* mutant of RReconnectDone: a successful connect leaves the doubled delay
RReconnectDoneNoReset ==
    /\ reader_pc = "sleep"
    /\ \E outcome \in ConnectOutcomes :
          /\ reader_pc' = AfterConnect(outcome)
          /\ reconnect_delay' = Min(reconnect_delay * 2, MaxReconnectDelay)
          /\ reconnects' = IF outcome = "ok" THEN 0 ELSE Min(reconnects + 1, MaxReconnects)
    /\ op' = "connect" /\ arg' = None /\ ret' = None
    /\ UNCHANGED <<readerRest, fed, running, stats, stopped>>

\* reconnect() after its sleep: the delay doubles up to the maximum, connect()
\* resets it when it succeeds
RReconnectDone ==
    /\ reader_pc = "sleep"
    /\ \E outcome \in ConnectOutcomes :
          /\ reader_pc' = AfterConnect(outcome)
          /\ reconnect_delay' = IF outcome = "ok" THEN ReconnectDelayInit
                                 ELSE Min(reconnect_delay * 2, MaxReconnectDelay)
          /\ reconnects' = IF outcome = "ok" THEN 0 ELSE Min(reconnects + 1, MaxReconnects)
    /\ op' = "connect" /\ arg' = None /\ ret' = None
    /\ UNCHANGED <<readerRest, fed, running, stats, stopped>>

\* while self._running
RLoopTest ==
    /\ reader_pc = "test"
    /\ reader_pc' = IF running THEN "recv" ELSE "done"
    /\ op' = "test" /\ arg' = None /\ ret' = None
    /\ UNCHANGED <<readerRest, reconnects, fed, running, reconnect_delay, stats, stopped>>

\* bus.recv(timeout=1.0) returns None, or any exception but CanOperationError
\* is raised (logged, sleep 0.1)
RRecvTimeout ==
    /\ reader_pc = "recv"
    /\ reader_pc' = "test"
    /\ op' = "recv" /\ arg' = None /\ ret' = None
    /\ UNCHANGED <<readerRest, reconnects, fed, running, reconnect_delay, stats, stopped>>

\* mutant of RRecvErrorFrame: the error frame is yielded like a data frame
RRecvErrorFrameYielded ==
    /\ reader_pc = "recv"
    /\ stats.errors < MaxBusErrors
    /\ stats' = [stats EXCEPT !.errors = @ + 1]
    /\ fed' = fed + 1
    /\ reader_pc' = "yielded"
    /\ op' = "error_frame" /\ arg' = None /\ ret' = fed + 1
    /\ UNCHANGED <<readerRest, reconnects, running, reconnect_delay, stopped>>

\* bus.recv returns an error frame: counted, not yielded
RRecvErrorFrame ==
    /\ reader_pc = "recv"
    /\ stats.errors < MaxBusErrors
    /\ stats' = [stats EXCEPT !.errors = @ + 1]
    /\ reader_pc' = "test"
    /\ op' = "error_frame" /\ arg' = None /\ ret' = None
    /\ UNCHANGED <<readerRest, reconnects, fed, running, reconnect_delay, stopped>>

\* bus.recv returns a data frame: counted and yielded (ret is the frame's number)
RRecvFrame ==
    /\ reader_pc = "recv"
    /\ fed < ReaderMaxFed
    /\ fed' = fed + 1
    /\ stats' = [stats EXCEPT !.frames = @ + 1]
    /\ reader_pc' = "yielded"
    /\ op' = "yield" /\ arg' = None /\ ret' = fed + 1
    /\ UNCHANGED <<readerRest, reconnects, running, reconnect_delay, stopped>>

\* bus.recv raises CanOperationError: bus-off is counted, the reconnect loop entered
RRecvBusOff ==
    /\ reader_pc = "recv"
    /\ stats.bus_off < MaxBusErrors
    /\ stats' = [stats EXCEPT !.bus_off = @ + 1]
    /\ reader_pc' = "connect"
    /\ reconnects' = 0
    /\ op' = "bus_off" /\ arg' = None /\ ret' = None
    /\ UNCHANGED <<readerRest, fed, running, reconnect_delay, stopped>>

\* the consumer asks for the next frame: the generator resumes after its yield
RResume ==
    /\ reader_pc = "yielded"
    /\ reader_pc' = "test"
    /\ op' = "next" /\ arg' = None /\ ret' = None
    /\ UNCHANGED <<readerRest, reconnects, fed, running, reconnect_delay, stats, stopped>>

ReaderStep ==
    \/ RFirstNext \/ RReconnectTest \/ RReconnectDone \/ RLoopTest
    \/ RRecvTimeout \/ RRecvErrorFrame \/ RRecvFrame \/ RRecvBusOff \/ RResume

ReaderNext == RStop \/ ReaderStep

SpecReader == ReaderInit /\ [][ReaderNext]_vars

\* the consumer keeps asking and the generator keeps running
SpecReaderFair == SpecReader /\ WF_vars(ReaderStep)

\* C20: once stop() has been called, read_frames yields no further frame and
\* its loop terminates, whenever stop() is called: before the first frame is
\* requested, during a receive poll, during a reconnect sleep.
C20_StopWins ==
    /\ [][stopped => fed' = fed]_vars
    /\ stopped ~> (reader_pc = "done")

\* C21: an error frame increments the errors counter and is not yielded; the
\* frames counter equals the number of frames yielded so far; none of frames,
\* errors, bus_off ever decreases, also across reconnects.
C21_Counters ==
    /\ [](stats.frames = fed)
    /\ [][ /\ stats'.frames >= stats.frames
           /\ stats'.errors >= stats.errors
           /\ stats'.bus_off >= stats.bus_off
           /\ op' = "error_frame" =>
                 (stats'.errors = stats.errors + 1 /\ fed' = fed /\ reader_pc' # "yielded")
           /\ fed' # fed => (fed' = fed + 1 /\ stats'.frames = stats.frames + 1)
         ]_vars

\* C21 witness: after a bus-off and a reconnect, an error frame was counted
\* with a data frame already yielded
C21_Witness ==
    /\ op = "error_frame"
    /\ stats.errors >= 1 /\ stats.bus_off >= 1 /\ stats.frames >= 1
    /\ fed = stats.frames

\* C22: read_frames never propagates a failure of the hardware to its
\* consumer, whatever the error raised while opening the interface: the
\* generator is never left by an exception.
C22_NeverRaises == reader_pc # "raised"

\* C32: in a reconnect loop the n-th reconnect attempt in a row is preceded by
\* a sleep of min(2^(n-1), MaxReconnectDelay) seconds (1, 2, 4, 8, 16, 30, 30,
\* ...); bus_off is incremented exactly once per bus operation error and by
\* nothing else; every successful connect resets the delay to 1 s.
C32_ReconnectBackoff ==
    /\ [][ (op' = "reconnect" /\ reader_pc' = "sleep") =>
             ret' = Min(Pow2(reconnects), MaxReconnectDelay) ]_vars
    /\ [][ /\ op' = "bus_off" => stats'.bus_off = stats.bus_off + 1
           /\ stats'.bus_off # stats.bus_off => op' = "bus_off"
           /\ (op' = "connect" /\ reader_pc' = "test") =>
                 reconnect_delay' = ReconnectDelayInit ]_vars

\* C32 witness: after a bus operation error and at least five failed
\* reconnect attempts, reconnect sleeps for the maximum delay
C32_Witness ==
    /\ op = "reconnect" /\ reader_pc = "sleep"
    /\ stats.bus_off = 1 /\ reconnects >= 5
    /\ ret = MaxReconnectDelay

----------------------------------------------------------------------------
(* The running agent: run_agent's main loop over                           *)
(* batcher.process_frames(reader.read_frames()) with the hardware reader,  *)
(* the retry worker thread, the clock, and the termination signal.         *)

AgentInit ==
    /\ InitState
    /\ window_sec = 1
    /\ max_frames \in 1..2
    /\ max_retries = 1 /\ initial_backoff_sec = 1 /\ max_backoff_sec = 1
    /\ max_queue_size = 1 /\ max_disk_bytes = 2
    /\ upload_enabled \in BOOLEAN

\* signal_handler: SIGINT or SIGTERM arrives
Signal ==
    /\ pc # "exited"
    /\ ~shutdown_event
    /\ shutdown_event' = TRUE
    /\ UNCHANGED <<cfgVars, stepVars, readerVars, batcherVars, dirVars, envVars, callVars, uploaderVars,
                   bufferVars, pc, cur_path, running, batch_count, upload_success,
                   upload_failed, exit_code, workerVars>>

Tick ==
    /\ pc # "exited"
    /\ clock < AgentMaxClock
    /\ clock' = clock + 1
    /\ UNCHANGED <<cfgVars, stepVars, readerVars, batcherVars, dirVars, fed, polls, s3_objects, callVars,
                   uploaderVars, bufferVars, agentVars, workerVars>>

\* run_agent(config, simulate) starts the background threads: the retry worker
\* if an uploader was built, the health monitor with the hardware reader.  Then
\* the for statement asks process_frames for its first path: read_frames starts
\* and connects
SupStart ==
    /\ pc = "start"
    /\ pc' = "loop"
    /\ running' = TRUE
    /\ \E sim \in BOOLEAN :
          /\ simulate' = sim
          /\ threads' = (IF upload_enabled THEN {"retry-worker"} ELSE {})
                           \cup (IF sim THEN {} ELSE {"health-monitor"})
    /\ UNCHANGED <<cfgVars, exitVars, retryVars, s3_multipart, el_pc, health_pc, beats,
                   readerVars, batcherVars, dirVars, envVars, callVars, uploaderVars,
                   bufferVars, cur_path, shutdown_event, batch_count, upload_success,
                   upload_failed, exit_code, workerVars>>

\* read_frames of the hardware reader: bus.recv(timeout=1.0) returns None, the
\* loop continues
SupRecvTimeout ==
    /\ pc = "loop" /\ running /\ ~raising
    /\ ~simulate
    /\ polls' = 1 - polls
    /\ UNCHANGED <<cfgVars, stepVars, readerVars, batcherVars, dirVars, clock, fed, s3_objects, callVars,
                   uploaderVars, bufferVars, agentVars, workerVars>>

\* read_frames yields a frame, process_frames passes it to add_frame and yields
\* the path if a batch was flushed
SupRecvFrame ==
    /\ pc = "loop" /\ running /\ ~raising
    /\ fed < AgentMaxFed
    /\ LET frame == CANFrame(fed + 1, clock) IN
       \E r \in {AddFrameResult(current_batch, batch_start_time, data_dir, frame, clock)} :
           /\ current_batch' = r.batch
           /\ batch_start_time' = r.start
           /\ data_dir' = r.dir
           /\ fed' = fed + 1
           /\ op' = "add_frame" /\ arg' = frame.id /\ ret' = r.path
           /\ IF r.path # None
              THEN pc' = "emit" /\ cur_path' = r.path
              ELSE UNCHANGED <<pc, cur_path>>
    /\ UNCHANGED <<cfgVars, stepVars, readerVars, pending_dir, archive_dir, clock, polls, s3_objects,
                   uploaderVars, bufferVars, shutdown_event, running, batch_count,
                   upload_success, upload_failed, exit_code, workerVars>>

\* the attempt outcomes tried in the agent: the remote accepts, or is unreachable
AgentOutcomes == {[i \in 1..max_retries |-> o] : o \in {"ok", "conn"}}

\* the loop body finds the shutdown flag set and breaks; the abandoned generator
\* is closed, and the finally clause of process_frames flushes the batch
SupBreak ==
    /\ pc = "emit"
    /\ shutdown_event
    /\ \E r \in {FlushResult(current_batch, batch_start_time, data_dir, clock)} :
           /\ current_batch' = r.batch
           /\ batch_start_time' = r.start
           /\ data_dir' = r.dir
    /\ pc' = "finally"
    /\ raising' = FALSE
    /\ UNCHANGED <<cfgVars, fatal, stats_files, retryVars, s3_multipart, el_pc, monitorVars, readerVars,
                   pending_dir, archive_dir, envVars, callVars, uploaderVars,
                   bufferVars, cur_path, shutdown_event, running, batch_count,
                   upload_success, upload_failed, exit_code, workerVars>>

\* an exception leaves read_frames (or add_frame): process_frames logs it and
\* re-raises, and its finally clause flushes the open batch first; a written
\* path is yielded to the main loop with the exception still pending, else the
\* exception reaches the except arm of run_agent
SupRaise ==
    /\ pc = "loop" /\ running /\ ~raising
    /\ \E r \in {ProcessFramesEnd(current_batch, batch_start_time, data_dir, clock, TRUE)} :
           /\ current_batch' = r.batch
           /\ batch_start_time' = r.start
           /\ data_dir' = r.dir
           /\ IF r.path # None
              THEN /\ pc' = "emit" /\ cur_path' = r.path
                   /\ raising' = TRUE /\ UNCHANGED fatal
              ELSE /\ pc' = "finally" /\ UNCHANGED cur_path
                   /\ fatal' = TRUE /\ UNCHANGED raising
    /\ UNCHANGED <<cfgVars, stats_files, retryVars, s3_multipart, el_pc, monitorVars, readerVars,
                   pending_dir, archive_dir, envVars, callVars, uploaderVars,
                   bufferVars, shutdown_event, running, batch_count,
                   upload_success, upload_failed, exit_code, workerVars>>

\* the for statement asks for the next path after the one yielded from the
\* finally clause: the pending exception leaves process_frames and the loop
SupReraise ==
    /\ pc = "loop" /\ raising
    /\ pc' = "finally"
    /\ fatal' = TRUE /\ raising' = FALSE
    /\ UNCHANGED <<cfgVars, stats_files, retryVars, s3_multipart, el_pc, monitorVars, readerVars, batcherVars,
                   dirVars, envVars, callVars, uploaderVars, bufferVars, cur_path,
                   shutdown_event, running, batch_count, upload_success,
                   upload_failed, exit_code, workerVars>>

\* the loop body for the path the batcher emitted, uploading enabled
SupUpload ==
    /\ pc = "emit"
    /\ ~shutdown_event
    /\ upload_enabled
    /\ batch_count' = batch_count + 1
    /\ \E outs \in AgentOutcomes :
        \E r \in {Upload(cur_path, outs, data_dir, pending_dir, archive_dir, s3_objects)} :
           /\ data_dir' = r.data
           /\ pending_dir' = r.pending
           /\ archive_dir' = r.archive
           /\ s3_objects' = r.s3
           /\ attempts' = r.attempts
           /\ sleeps' = r.sleeps
           /\ op' = "upload" /\ arg' = cur_path /\ ret' = ret  \* the result goes to the counters
           /\ IF r.success
              THEN upload_success' = upload_success + 1 /\ UNCHANGED upload_failed
              ELSE upload_failed' = upload_failed + 1 /\ UNCHANGED upload_success
    /\ pc' = "loop"
    /\ UNCHANGED <<cfgVars, stepVars, readerVars, batcherVars, clock, fed, polls, bufferVars, cur_path,
                   shutdown_event, running, exit_code, workerVars>>

\* the loop body for the path the batcher emitted, uploading disabled
SupLocalOnly ==
    /\ pc = "emit"
    /\ ~shutdown_event
    /\ ~upload_enabled
    /\ batch_count' = batch_count + 1
    /\ pc' = "loop"
    /\ UNCHANGED <<cfgVars, stepVars, readerVars, batcherVars, dirVars, envVars, callVars, uploaderVars,
                   bufferVars, cur_path, shutdown_event, running, upload_success,
                   upload_failed, exit_code, workerVars>>

\* leaving the with block closes the reader; the finally clause sets the flag
SupFinally ==
    /\ pc = "finally"
    /\ running' = FALSE
    /\ shutdown_event' = TRUE
    /\ pc' = "join"
    /\ UNCHANGED <<cfgVars, stepVars, readerVars, batcherVars, dirVars, envVars, callVars, uploaderVars,
                   bufferVars, cur_path, batch_count, upload_success, upload_failed,
                   exit_code, workerVars>>

\* t.join(timeout=5) for each thread: it returns when the thread has ended, or
\* after five seconds while the thread is still busy (a retry pass sleeps and
\* waits for the network; a thread waiting on the flag wakes at once).  Then
\* get_stats begins: get_pending_files globs the pending directory
SupJoin ==
    /\ pc = "join"
    /\ "retry-worker" \in threads => worker_pc \in {"stopped", "retry"}
    /\ "health-monitor" \in threads => health_pc = "stopped"
    /\ pc' = "stats"
    /\ stats_files' = DOMAIN pending_dir
    /\ UNCHANGED <<cfgVars, fatal, raising, retryVars, s3_multipart, el_pc, monitorVars, readerVars, batcherVars,
                   dirVars, envVars, callVars, uploaderVars, bufferVars, cur_path,
                   shutdown_event, running, batch_count, upload_success,
                   upload_failed, exit_code, workerVars>>

\* get_stats sorts the globbed files by p.stat().st_mtime: stat raises
\* FileNotFoundError for a file that has left the directory meanwhile, and the
\* exception leaves the finally clause (exit status 1).  Otherwise the final
\* stats are logged and the pending sys.exit(1) of the except arm, or
\* sys.exit(0), ends the process.
SupExit ==
    /\ pc = "stats"
    /\ pc' = "exited"
    /\ exit_code' = IF ~(stats_files \subseteq DOMAIN pending_dir) THEN 1
                    ELSE IF fatal THEN 1 ELSE 0
    /\ UNCHANGED <<cfgVars, stepVars, readerVars, batcherVars, dirVars, envVars, callVars, uploaderVars,
                   bufferVars, cur_path, shutdown_event, running, batch_count,
                   upload_success, upload_failed, workerVars>>

Supervisor ==
    \/ SupStart \/ SupRecvTimeout \/ SupRecvFrame \/ SupBreak \/ SupRaise \/ SupReraise
    \/ SupUpload \/ SupLocalOnly \/ SupFinally \/ SupJoin \/ SupExit

\* retry_pending_worker: the wait timed out with the flag clear; retry_pending
\* lists the pending directory
WorkerWake ==
    /\ "retry-worker" \in threads
    /\ worker_pc = "wait"
    /\ ~shutdown_event
    /\ pending_dir # EmptyDir
    /\ \E order \in Perms(DOMAIN pending_dir) : worker_files' = order
    /\ worker_pc' = "retry"
    /\ UNCHANGED <<cfgVars, stepVars, readerVars, batcherVars, dirVars, envVars, callVars, uploaderVars,
                   bufferVars, agentVars>>

\* retry_pending, one iteration of its loop over the listed files: a file that
\* has gone makes stat raise inside _upload_with_retry, which returns False
WorkerRetryOne ==
    /\ worker_pc = "retry"
    /\ LET n == Head(worker_files) IN
       \E outs \in AgentOutcomes :
          IF n \in DOMAIN pending_dir /\ UploadWithRetry(outs).result
          THEN /\ s3_objects' = Put(s3_objects, S3KeyFlat(n), pending_dir[n].frames)
               /\ archive_dir' = Put(archive_dir, n, pending_dir[n])
               /\ pending_dir' = Remove(pending_dir, n)
          ELSE UNCHANGED <<s3_objects, archive_dir, pending_dir>>
    /\ worker_files' = Tail(worker_files)
    /\ worker_pc' = IF Tail(worker_files) = <<>> THEN "wait" ELSE "retry"
    /\ UNCHANGED <<cfgVars, stepVars, readerVars, batcherVars, data_dir, clock, fed, polls, callVars,
                   uploaderVars, bufferVars, agentVars>>

\* the worker finds the flag set, at the loop test or in the wait
WorkerStop ==
    /\ "retry-worker" \in threads
    /\ worker_pc = "wait"
    /\ shutdown_event
    /\ worker_pc' = "stopped"
    /\ UNCHANGED <<cfgVars, stepVars, readerVars, batcherVars, dirVars, envVars, callVars, uploaderVars,
                   bufferVars, agentVars, worker_files>>

Worker == WorkerWake \/ WorkerRetryOne \/ WorkerStop

monitorRest == <<cfgVars, exitVars, retryVars, s3_multipart, el_pc, threads, simulate,
                 readerVars, batcherVars, dirVars, envVars, callVars, uploaderVars,
                 bufferVars, agentVars, workerVars>>

\* health_monitor_worker: the wait timed out with the flag clear; the stats
\* are gathered and the HEALTH line is logged
HealthBeat ==
    /\ "health-monitor" \in threads
    /\ health_pc = "wait"
    /\ ~shutdown_event
    /\ beats' = 1 - beats
    /\ UNCHANGED <<monitorRest, health_pc>>

\* the monitor finds the flag set, at the loop test or in the wait
HealthStop ==
    /\ "health-monitor" \in threads
    /\ health_pc = "wait"
    /\ shutdown_event
    /\ health_pc' = "stopped"
    /\ UNCHANGED <<monitorRest, beats>>

Monitor == HealthBeat \/ HealthStop

AgentNext == Signal \/ Tick \/ Supervisor \/ Worker \/ Monitor

SpecAgent == AgentInit /\ [][AgentNext]_vars

\* the scheduler runs the main thread, the worker thread and the monitor thread
\* whenever they can step
SpecAgentFair == SpecAgent /\ WF_vars(Supervisor) /\ WF_vars(Worker) /\ WF_vars(Monitor)

----------------------------------------------------------------------------
(* Claims about the running agent, checked under SpecAgent and SpecAgentFair *)

\* the step is the supervisor's call of uploader.upload for the emitted path
SupUploadStep == pc = "emit" /\ pc' = "loop" /\ op' = "upload"

\* what upload returned in that step, as the supervisor's counters record it
UploadReturnedFalse == SupUploadStep /\ upload_failed' = upload_failed + 1
UploadReturnedTrue == SupUploadStep /\ upload_success' = upload_success + 1

\* C2: after the supervisor has handled a failed upload, the pending directory
\* holds at most max_queue_size files and at most max_disk_bytes bytes.
C2_PendingBoundedInAgent ==
    [][UploadReturnedFalse =>
          /\ Cardinality(DOMAIN pending_dir') <= max_queue_size
          /\ GetDiskUsage(pending_dir') <= max_disk_bytes]_vars

\* C3: after the shutdown flag is set (by the signal, while the main loop
\* runs), the main loop eventually exits and the process terminates, for every
\* bus behaviour; with exit code 0 unless an exception escaped the main loop or
\* the final stats meanwhile.
C3_ShutdownLeadsToExit ==
    (shutdown_event /\ pc \in {"start", "loop", "emit"} /\ ~raising) ~>
        (pc = "exited" /\
            (exit_code = 0 \/ fatal \/ ~(stats_files \subseteq DOMAIN pending_dir)))

\* C4: whenever upload(local_path) returns False for a file that exists, the
\* file is afterwards in pending_dir and no longer in data staging, also when
\* pending_dir already held a file of that name.
C4_FailedUploadMovesToPending ==
    [][(UploadReturnedFalse /\ cur_path \in DOMAIN data_dir) =>
          /\ cur_path \in DOMAIN pending_dir'
          /\ cur_path \notin DOMAIN data_dir']_vars

\* C5: whenever upload(local_path) succeeds it returns True, and afterwards a
\* file of that name is in archive_dir, the file is gone from its original
\* location, and no file of that name is in pending_dir.
C5_SuccessfulUploadArchives ==
    [][(UploadReturnedTrue) =>
          /\ cur_path \in DOMAIN archive_dir'
          /\ cur_path \notin DOMAIN data_dir'
          /\ cur_path \notin DOMAIN pending_dir']_vars

\* C6: with uploading enabled, every file the batcher emits to the supervisor,
\* the one emitted on the iteration where shutdown is observed included, leaves
\* data staging: when the agent has exited no file is left there.
C6_EmittedFilesLeaveStaging ==
    (upload_enabled /\ pc = "exited") => data_dir = EmptyDir

C26_ExitCode ==
    pc = "exited" =>
        /\ exit_code \in {0, 1}
        /\ (exit_code = 1) <=> fatal

\* C33: for every interleaving of the supervisor's get_stats (list the
\* pending directory, then stat each listed file) with the retry worker moving
\* a file from pending to archive, get_stats completes without raising: every
\* file it has listed is still there when it is stat'ed.
C33_GetStatsNeverRaises ==
    [][ (pc = "stats" /\ pc' = "exited") => stats_files \subseteq DOMAIN pending_dir ]_vars

\* each background thread that was started has left its loop
ThreadsTerminated ==
    /\ "retry-worker" \in threads => worker_pc = "stopped"
    /\ "health-monitor" \in threads => health_pc = "stopped"

\* C36: once the shutdown flag is set the retry worker starts no new
\* retry_pending pass and the health monitor logs no new heartbeat; both
\* threads terminate, and both have terminated before the supervisor produces
\* the final stats and exits.
C36_ThreadsStopBeforeExit ==
    /\ [][ shutdown_event => ~(worker_pc = "wait" /\ worker_pc' = "retry") ]_vars
    /\ [][ shutdown_event => beats' = beats ]_vars
    /\ [](pc \in {"stats", "exited"} => ThreadsTerminated)
    /\ shutdown_event ~> ThreadsTerminated

\* C37: in every run the supervisor has started the retry worker, whatever the
\* configuration, and the health monitor exactly if the reader is the hardware
\* one.
C37_ThreadsStarted ==
    pc # "start" =>
        /\ "retry-worker" \in threads
        /\ "health-monitor" \in threads <=> ~simulate

----------------------------------------------------------------------------
(* _upload_with_retry step by step, for one file of data staging: the      *)
(* attempts, and between them time.sleep(backoff) passing second by        *)
(* second, while the termination signal may arrive at any moment.          *)

RetryInit ==
    /\ InitRest
    /\ window_sec = 1 /\ max_frames = 1
    /\ max_queue_size = 1 /\ max_disk_bytes = 1 /\ upload_enabled = TRUE
    /\ max_retries \in 1..MaxRetries
    /\ initial_backoff_sec \in 1..MaxInitialBackoff
    /\ max_backoff_sec \in 1..MaxMaxBackoff
    /\ data_dir = [n \in {0} |-> BatchFile(0, 1)]
    /\ pending_dir = EmptyDir /\ archive_dir = EmptyDir

retryRest == <<cfgVars, exitVars, s3_multipart, el_pc, monitorVars, readerVars, batcherVars, dirVars,
               clock, fed, polls, bufferVars, agentVars, workerVars>>

\* backoff = self.initial_backoff_sec; the for loop is entered
RtCall ==
    /\ up_pc = "idle"
    /\ up_pc' = "attempt"
    /\ up_backoff' = initial_backoff_sec
    /\ op' = "upload_with_retry" /\ arg' = 0
    /\ UNCHANGED <<retryRest, s3_objects, ret, sleep_left, uploaderVars>>

\* one iteration of the for loop up to its return or its time.sleep
RtAttempt ==
    /\ up_pc = "attempt"
    /\ attempts' = attempts + 1
    /\ \E o \in Outcomes :
        IF o = "ok"
        THEN /\ s3_objects' = Put(s3_objects, S3Key(0), data_dir[0].frames)
             /\ up_pc' = "done" /\ ret' = TRUE
             /\ UNCHANGED <<sleeps, sleep_left>>
        ELSE IF o \in {"conn", "client", "denied"} /\ attempts < max_retries - 1
        THEN /\ up_pc' = "sleep" /\ sleep_left' = up_backoff
             /\ sleeps' = Append(sleeps, up_backoff)
             /\ UNCHANGED <<s3_objects, ret>>
        ELSE /\ up_pc' = "done" /\ ret' = FALSE
             /\ UNCHANGED <<s3_objects, sleeps, sleep_left>>
    /\ UNCHANGED <<retryRest, op, arg, up_backoff>>

\* a second of time.sleep(backoff) passes; the sleep tests nothing
RtSleepSecond ==
    /\ up_pc = "sleep" /\ sleep_left > 0
    /\ sleep_left' = sleep_left - 1
    /\ UNCHANGED <<retryRest, s3_objects, callVars, uploaderVars, up_pc, up_backoff>>

\* time.sleep returns: backoff = min(backoff * 2, max_backoff_sec), next iteration
RtSleepReturn ==
    /\ up_pc = "sleep" /\ sleep_left = 0
    /\ up_backoff' = Min(up_backoff * 2, max_backoff_sec)
    /\ up_pc' = "attempt"
    /\ UNCHANGED <<retryRest, s3_objects, callVars, uploaderVars, sleep_left>>

RetryNext == RtCall \/ RtAttempt \/ RtSleepSecond \/ RtSleepReturn \/ Signal

SpecRetry == RetryInit /\ [][RetryNext]_vars

\* C29: if the shutdown flag is set while the uploader is waiting in a backoff
\* between retries, the uploader stops waiting and makes no further upload
\* attempt: with the flag set, a backoff wait is never followed by an attempt.
C29_ShutdownEndsBackoff ==
    [][ (shutdown_event /\ up_pc = "sleep") => up_pc' # "attempt" ]_vars

----------------------------------------------------------------------------
(* _upload_with_retry for a file above the multipart threshold: every      *)
(* attempt is one call of _multipart_upload, which ends well or fails at   *)
(* one of its remote calls; the abort in its except clause can fail too.   *)

Errors == {"conn", "client", "other"}

\* how one call of _multipart_upload ends: stage is the remote call that
\* failed ("ok" when none did), abort_ok whether abort_multipart_upload went
\* through, error the kind of the exception that leaves the call
MultipartOutcomes ==
    {[stage |-> "ok", abort_ok |-> TRUE, error |-> "ok"]}
    \cup {[stage |-> "create", abort_ok |-> TRUE, error |-> e] : e \in Errors}
    \cup {[stage |-> st, abort_ok |-> a, error |-> e] :
             st \in {"part", "complete"}, a \in BOOLEAN, e \in Errors}

\* _multipart_upload leaves the upload it initiated open: a part or the
\* completion failed after create_multipart_upload, and the abort raised
LeavesOpen(o) == o.stage \in {"part", "complete"} /\ ~o.abort_ok

MultipartInit ==
    /\ InitRest
    /\ window_sec = 1 /\ max_frames = 1
    /\ max_queue_size = 1 /\ max_disk_bytes = 1 /\ upload_enabled = TRUE
    /\ max_retries \in 1..MaxRetries
    /\ initial_backoff_sec = 1 /\ max_backoff_sec = 1
    /\ data_dir = [n \in {0} |-> BatchFile(0, 1)]
    /\ pending_dir = EmptyDir /\ archive_dir = EmptyDir

\* _upload_with_retry(local_path, s3_key) on the multipart branch; the upload
\* id of attempt i is i
MUploadWithRetry ==
    /\ op = "init"
    /\ \E outs \in [1..max_retries -> MultipartOutcomes] :
        \E r \in {UploadWithRetry([i \in 1..max_retries |-> outs[i].error])} :
           /\ s3_multipart' = {i \in 1..r.attempts : LeavesOpen(outs[i])}
           /\ s3_objects' = IF r.result THEN Put(s3_objects, S3Key(0), data_dir[0].frames)
                             ELSE s3_objects
           /\ attempts' = r.attempts
           /\ sleeps' = r.sleeps
           /\ op' = "upload_with_retry" /\ arg' = outs /\ ret' = r.result
    /\ UNCHANGED <<cfgVars, exitVars, retryVars, el_pc, monitorVars, readerVars, batcherVars,
                   dirVars, clock, fed, polls, bufferVars, agentVars, workerVars>>

SpecMultipart == MultipartInit /\ [][MUploadWithRetry]_vars

\* C30: every multipart upload initiated on the server is completed or
\* aborted by the time _upload_with_retry returns, for any failure of a part
\* or of the completion and any number of attempts, also when the abort fails.
C30_NoOpenMultipart ==
    op = "upload_with_retry" => s3_multipart = {}

====
